---------------------------- MODULE Spec2Model ----------------------------
(***************************************************************************)
(* A model of the zkcpp client core: the multi-threaded adaptor            *)
(* (src/contrib/zkcpp/src/mt_adaptor.c) and the completion-routing and     *)
(* watch-dispatch layer of ZooKeeperImpl (the C++ part of                  *)
(* src/contrib/zkcpp/include/zookeeper/logging.hh).                        *)
(*                                                                         *)
(* The module holds several specifications over one set of variables:      *)
(*   SpecWatch  the watch dispatcher and the handle's State                *)
(*   SpecWire   the watch dispatcher given any state value in a node event *)
(*   SpecCompl  the kind-specific completion adapters                      *)
(*   SpecRef    the reference counter under concurrent inc/dec             *)
(*   SpecSync   the synchronous adapter (ExistsCallback, sync_completion)  *)
(*   Spec       the thread pair, its barrier, the queue and shutdown       *)
(*   SpecLive   the thread pair with each thread scheduled fairly          *)
(*   SpecCall   the request calls and the contexts they allocate           *)
(*   SpecXid    get_xid called from several threads                        *)
(*   SpecCrit   enter_critical and leave_critical                          *)
(*   SpecBlock  the thread pair with user code calling the blocking exists *)
(*   SpecPoll   one iteration of do_io: interest, poll, flags, process     *)
(*   SpecLife   init, close and the destructor of one ZooKeeperImpl        *)
(*   SpecSend   adaptor_send_queue while the handle is being closed        *)
(*   SpecOp     the operations of a multi request and their getters        *)
(* Each specification moves only its own group of variables.               *)
(***************************************************************************)
EXTENDS Integers, Sequences, FiniteSets, TLC

VARIABLES
  \* ---- watch dispatcher (ZooKeeperImpl::watchCallback) ----
  state_,        \* ZooKeeperImpl::state_
  inited_,       \* ZooKeeperImpl::inited_
  stateHist,     \* history: every value state_ has had, in order
  wctx,          \* the WatchContexts allocated so far: id -> record
  watchers,      \* the contexts the engine holds a watcher registration for
  lastEv,        \* history: the last event dispatched and what the dispatcher did
  aborted,       \* the process was aborted by a failed assert
  \* ---- the build and the run ----
  ndebug,        \* assert() is compiled out (NDEBUG)
  reqBudget,     \* requests the application submits at most in this run
  \* ---- completion adapters (ZooKeeperImpl::*Completion) ----
  cKind,         \* the adapter being run, or "none"
  cPc,           \* its position: "idle", "decoded", "called", "returned", "crashed"
  cIn,           \* its arguments (rc, the engine's payload, the context's callback)
  cCall,         \* what the user callback received, or NoCall
  ctxLive,       \* the context given to the adapter is allocated
  ctxDeletes,    \* how many times the adapter deleted the context
  ctxBadRead,    \* the adapter read the context after deleting it
  cRuns,         \* adapters run so far
  \* ---- reference counter (inc_ref_counter, fetch_and_add) ----
  ref_counter,   \* zhandle_t::ref_counter, an int32_t
  rHeld,         \* thread -> it has incremented and not yet decremented
  rRounds,       \* thread -> inc/dec pairs it has completed
  rRet,          \* thread -> what its last inc_ref_counter call returned
  zeroObs,       \* history: decrements that returned 0
  drops,         \* history: times the last reference held was given up
  rCall,         \* history: the last inc_ref_counter call: its argument, the
                 \* counter before and after it, what it returned and how
                 \* many references were held after it
  \* ---- synchronous adapter (ExistsCallback, sync_completion) ----
  completed_,    \* ExistsCallback::completed_
  rc_,           \* ExistsCallback::rc_ ("unset": never written)
  mutex_,        \* ExistsCallback::mutex_: its owner, or "none"
  condWaiters,   \* threads blocked in ExistsCallback::cond_.wait
  ePc,           \* the caller of the blocking exists
  eRet,          \* what the blocking exists returned
  eWaited,       \* history: the caller blocked on cond_ at least once
  dPc,           \* the thread running processResult
  dRc,           \* the result code passed to processResult
  scComplete,    \* sync_completion::complete
  scLock,        \* sync_completion::lock_: its owner, or "none"
  scWaiters,     \* threads blocked in sync_completion::cond_.wait
  sPc,           \* the caller of wait_sync_completion
  nPc,           \* the caller of notify_sync_completion
  \* ---- thread pair, barrier, completion queue, shutdown ----
  adaptor_priv,    \* zh->adaptor_priv is set
  threadsToWait,   \* adaptor_threads::threadsToWait
  barrierWaiters,  \* threads blocked in adaptor->cond.wait
  close_requested, \* zh->close_requested
  unrecoverable,   \* what is_unrecoverable(zh) answers
  selfPipe,        \* bytes written to self_pipe[1] and not yet read
  pollin,          \* fds[0].revents & POLLIN after the last poll()
  pending,         \* requests the engine has accepted and not completed
  queue,           \* zh->completions_to_process, head first
  qLock,           \* owner of completions_to_process.lock, or "none"
  qWaiters,        \* threads blocked in completions_to_process.cond.wait
  appPc,           \* the application thread
  ioPc,            \* the I/O thread (do_io)
  compPc,          \* the Completion thread (do_completion)
  cur,             \* the completion process_completions has dequeued, or 0
  initRet,         \* <<what adaptor_init returned>>, <<>> before it returns
  hasCb,           \* request id -> it was submitted with a callback
  invoked,         \* history: request id -> times its callback was invoked
  enqLog,          \* history: the completions enqueued, in order
  delivered,       \* history: the callbacks the Completion thread invoked
  queuedAtClose,   \* history: what was queued when close was requested
  destroyed,       \* history: times the handle was destroyed
  ioThread,        \* adaptor_threads::io: "none", "joinable", "joined"
                   \* or "detached"
  compThread,      \* adaptor_threads::completion, likewise
  joinCalls,       \* history: <<caller, worker>> for every join() called
  procRc,          \* do_io: rc of the last zookeeper_process call
  ioTerminal,      \* history: a processing step has ended with the closing
                   \* status or with the handle unrecoverable
  lateEnq,         \* history: a completion was enqueued after the
                   \* Completion thread had left its loop
  unserved,        \* history: a wakeup byte was written since the I/O
                   \* thread last evaluated its loop condition
  drainLeft,       \* history: bytes left in the pipe by the last flush
  initAlloc,       \* history: the calloc and free calls of adaptor_init
  \* ---- request calls of ZooKeeperImpl (create, exists, get, ...) ----
  calls,           \* the request calls made so far: what each was given,
                   \* what it returned and what became of its contexts
  \* ---- get_xid ----
  xid,             \* the static int32_t xid of get_xid
  xPc,             \* thread -> its position in get_xid
  xCalls,          \* thread -> calls of get_xid it has completed
  xBefore,         \* history: thread -> the values returned by the calls
                   \* that had completed when its call began
  xReturned,       \* history: the values returned in this run
  xEarlier,        \* history: the xid at the start of the run; the calls
                   \* before it returned StartTime up to the value before it
  xFresh,          \* history: no call has returned a value returned before
  xMonotone,       \* history: every value returned was greater than those
                   \* returned by the calls completed before its call began
  xLast,           \* history: the value the latest fetch_and_add returned
  xPlain,          \* history: every value returned was the one returned
                   \* before it plus one, modulo 2^32
  \* ---- the critical section (enter_critical, leave_critical) ----
  zh_lock,         \* adaptor_threads::zh_lock: its owner, or "none"
  kPc,             \* thread -> "out", "enter" (blocked in lock()), "in",
                   \* or "suspended" (a worker in poll or in cond.wait)
  kRounds,         \* thread -> critical sections it has been through
  \* ---- the blocking exists made from user code ----
  \* ---- one iteration of do_io: interest, poll, flags, process ----
  pPc,             \* "interest", "poll", "flags", "process"
  pFd,             \* do_io's fd as zookeeper_interest has left it:
                   \* -1 (no socket) or the session socket
  pInterest,       \* do_io's interest: a set of ZOOKEEPER_READ/WRITE
  pRevents,        \* fds[1].revents
  pPassed,         \* <<the events given to the latest zookeeper_process>>
  pIter,           \* iterations of the loop completed
  \* ---- the life of a ZooKeeperImpl: init, close, the destructor ----
  handle_,         \* ZooKeeperImpl::handle_: 0 (NULL) or the handle's number
  alive,           \* the object has not been destructed
  zCloses,         \* history: handle -> calls of zookeeper_close on it
  zFails,          \* history: calls of init that failed
  zCalls,          \* history: calls of close(), the destructor's included
  lastClose,       \* history: the latest call of close(): inited_ before
                   \* it, what it returned, handle_ after it
  \* ---- adaptor_send_queue called while the handle is being closed ----
  aPc,             \* caller -> "idle", "wakeup" (close_requested was read as
                   \* 0), "flush" (it was read as 1)
  aCalls,          \* caller -> calls of adaptor_send_queue it has completed
  aLast,           \* history: caller -> its latest call: what it read, whether
                   \* it wrote a byte, whether it flushed, what it returned
  lateWrite,       \* history: a byte was written to the pipe while
                   \* close_requested was set
  \* ---- the operations of a multi request (Op and its subtypes) ----
  op,              \* the Op constructed last: its class and its members
  opArgs,          \* history: the arguments its constructor was given
  opGot,           \* history: the getter called last and what it returned
  \* ---- the Stat the blocking exists fills in ----
  stat_,           \* ExistsCallback::stat_: "null" or "caller" (it points
                   \* to the caller's Stat)
  callerStat,      \* the caller's Stat: "before" (what it held when exists
                   \* was called) or "node" (the Stat of the completion)
  exCall           \* the blocking call of the run: its thread, its request,
                   \* "waiting" or "returned", the submission's result, and
                   \* how many completions had been delivered when it blocked

watchVars == <<state_, inited_, stateHist, wctx, watchers, lastEv, aborted>>
buildVars == <<ndebug, reqBudget>>
complVars == <<cKind, cPc, cIn, cCall, ctxLive, ctxDeletes, ctxBadRead, cRuns>>
refVars == <<ref_counter, rHeld, rRounds, rRet, zeroObs, drops, rCall>>
syncVars == <<completed_, rc_, mutex_, condWaiters, ePc, eRet, eWaited, dPc,
              dRc, scComplete, scLock, scWaiters, sPc, nPc>>
refHist == <<rHeld, rRounds, rRet, zeroObs, drops, rCall>>
pipeVars == <<adaptor_priv, threadsToWait, barrierWaiters, close_requested,
              unrecoverable, selfPipe, pollin, pending, queue, qLock,
              qWaiters, appPc, ioPc, compPc, cur, initRet, hasCb, invoked,
              enqLog, delivered, queuedAtClose, destroyed, ioThread,
              compThread, joinCalls, procRc, ioTerminal, lateEnq, unserved,
              drainLeft, initAlloc>>
allocVars == <<initAlloc>>
ioVars == <<procRc, ioTerminal, lateEnq, unserved, drainLeft>>
joinVars == <<ioThread, compThread, joinCalls>>
callVars == <<calls>>
critVars == <<zh_lock, kPc, kRounds>>
blockVars == <<exCall>>
pollVars == <<pPc, pFd, pInterest, pRevents, pPassed, pIter>>
lifeVars == <<handle_, alive, zCloses, zFails, zCalls, lastClose>>
sendVars == <<aPc, aCalls, aLast, lateWrite>>
statVars == <<stat_, callerStat>>
opVars == <<op, opArgs, opGot>>
moreVars == <<pollVars, lifeVars, sendVars, statVars, opVars>>
xidVars == <<xid, xPc, xCalls, xBefore, xReturned, xEarlier, xFresh,
             xMonotone, xLast, xPlain>>
vars == <<buildVars, watchVars, complVars, refVars, syncVars, pipeVars,
          callVars, xidVars, critVars, blockVars, moreVars>>

----------------------------------------------------------------------------
(* Bounds of the model *)
MaxEvents == 3      \* events the engine dispatches in one run
MaxWatches == 1     \* per-call watches registered in one run
MaxRuns == 2        \* adapter invocations in one run
RefThreads == 2     \* threads that use the reference counter
RefRounds == 3      \* inc/dec pairs each of them performs
MaxReq == 2         \* requests the application submits in one session
MaxLiveReq == 1     \* the same in the runs checked for progress
PipeChunk == 2      \* bytes one read() of the flush takes (sizeof(b), 128
                    \* in the source, scaled to the wakeups of a run)
MaxCalls == 2       \* request calls made in one run
MaxSections == 2    \* critical sections each thread goes through
MaxPolls == 2       \* iterations of do_io's loop followed for its flags
MaxInits == 3       \* successful calls of init, and failed ones, on one object
MaxSends == 2       \* calls of adaptor_send_queue each caller makes
PipeCapacity == 2   \* bytes the pipe holds (64 KiB in the build, scaled)
MaxCloses == 3      \* calls of close() the user makes on one object
XidThreads == 2     \* threads that call get_xid
XidCalls == 2       \* calls of get_xid each of them makes

----------------------------------------------------------------------------
(***************************************************************************)
(* Watch dispatcher                                                        *)
(***************************************************************************)
\* enum State as the switch of watchCallback knows it (the first: the switch
\* with its last case label lost)
RecognisedStates_NoConnected == {"Expired", "SessionAuthFailed", "Connecting"}
RecognisedStates == {"Expired", "SessionAuthFailed", "Connecting", "Connected"}
\* values of the int `state` the engine can hand over: the four states and
\* two values outside the enum
EventStates == {"Expired", "SessionAuthFailed", "Connecting", "Connected",
                "Unknown9999", "Unknown0"}
EventTypes == {"Session", "NodeCreated", "NodeDeleted"}
NoEvent == [type |-> "none"]
\* a node event comes from the server, so over a connected session: the
\* state it carries is Connected
NodeEventState(type, state) == type # "Session" => state = "Connected"

\* ZooKeeperImpl::ZooKeeperImpl()
WatchInit ==
  /\ state_ = "Expired"
  /\ inited_ = FALSE
  /\ stateHist = <<"Expired">>
  /\ wctx = <<>>
  /\ watchers = {}
  /\ lastEv = NoEvent
  /\ aborted = FALSE

getState == state_

\* ZooKeeperImpl::setState, with the history kept beside it
setState(s) ==
  /\ state_' = s
  /\ stateHist' = Append(stateHist, s)

\* new WatchContext(zk, watch, deleteAfterCallback)
WatchContext(watchPresent, del) ==
  [watch |-> watchPresent, deleteAfterCallback_ |-> del, freed |-> FALSE,
   frees |-> 0, staleUse |-> FALSE]

\* init with the global watcher's context made one-shot
init_OneShotGlobal(watchPresent, ok) ==
  /\ ~aborted
  /\ ~inited_
  /\ wctx = <<>>
  /\ wctx' = <<WatchContext(watchPresent, TRUE)>>
  /\ watchers' = IF ok THEN {1} ELSE {}
  /\ inited_' = ok
  /\ UNCHANGED <<state_, stateHist, lastEv, aborted>>

\* ZooKeeperImpl::init: the global watcher's context is persistent.
\* zookeeper_init may fail (handle_ == NULL): Error, inited_ stays false.
init(watchPresent, ok) ==
  /\ ~aborted
  /\ ~inited_
  /\ wctx = <<>>
  /\ wctx' = <<WatchContext(watchPresent, FALSE)>>
  /\ watchers' = IF ok THEN {1} ELSE {}
  /\ inited_' = ok
  /\ UNCHANGED <<state_, stateHist, lastEv, aborted>>

\* The watch half of exists/get/getChildren: a per-call context, one-shot.
registerWatch ==
  /\ ~aborted
  /\ inited_
  /\ Len(wctx) < 1 + MaxWatches
  /\ wctx' = Append(wctx, WatchContext(TRUE, TRUE))
  /\ watchers' = watchers \cup {Len(wctx) + 1}
  /\ UNCHANGED <<state_, inited_, stateHist, lastEv, aborted>>

\* The engine's watcher table, which is not part of this layer: the global
\* watcher stays registered for the whole session; a per-call watcher is
\* taken out of the table by the node event it was set for, and a Session
\* event is delivered to every registered watcher without taking it out.
engineKeepsWatcher(c, type) == c = 1 \/ type = "Session"

\* what getState() returns inside watch->process if the watch object were
\* invoked ahead of the switch
processSees_BeforeSwitch == getState

\* what getState() returns inside watch->process: the call comes after the
\* switch, so it is state_ as the dispatch leaves it
processSees == getState'

\* watchCallback with its switch outside `if ((Event)type == Session)`
watchCallback_AnyType(c, type, state) ==
  LET context == wctx[c]
      session == (type = "Session")
      validState == state \in RecognisedStates
      fatal == session /\ ~validState
      dies == fatal /\ ~ndebug      \* assert(!"Got unknown state")
      ev == [type |-> type, state |-> state, ctx |-> c, prev |-> state_,
             fatal |-> fatal,
             processed |-> (~dies /\ context.watch),
             seen |-> processSees]
  IN
  /\ ~aborted
  /\ inited_
  /\ c \in watchers
  /\ ~context.staleUse
  /\ Len(stateHist) <= MaxEvents
  /\ IF validState THEN setState(state) ELSE UNCHANGED <<state_, stateHist>>
  /\ lastEv' = ev
  /\ aborted' = dies
  /\ watchers' = IF engineKeepsWatcher(c, type) THEN watchers
                                                ELSE watchers \ {c}
  /\ wctx' = IF ~dies /\ context.deleteAfterCallback_
             THEN [wctx EXCEPT ![c].freed = TRUE, ![c].frees = @ + 1,
                               ![c].staleUse = context.freed]
             ELSE [wctx EXCEPT ![c].staleUse = context.freed]
  /\ UNCHANGED inited_

\* ZooKeeperImpl::watchCallback(zh, type, state, path, watcherCtx).
\* When watcherCtx was deleted by an earlier dispatch the reads of
\* context->zk_, watch_ and deleteAfterCallback_ are reads of freed memory:
\* here the memory still holds what it held (the other outcome is
\* watchCallback_crash), and the context is deleted a second time.
watchCallback(c, type, state) ==
  LET context == wctx[c]
      session == (type = "Session")
      validState == session /\ state \in RecognisedStates
      fatal == session /\ ~validState
      dies == fatal /\ ~ndebug      \* assert(!"Got unknown state")
      ev == [type |-> type, state |-> state, ctx |-> c, prev |-> state_,
             fatal |-> fatal,
             processed |-> (~dies /\ context.watch),
             seen |-> processSees]
  IN
  /\ ~aborted
  /\ inited_
  /\ c \in watchers
  /\ ~context.staleUse
  /\ Len(stateHist) <= MaxEvents
  /\ IF validState THEN setState(state) ELSE UNCHANGED <<state_, stateHist>>
  /\ lastEv' = ev
  /\ aborted' = dies
  /\ watchers' = IF engineKeepsWatcher(c, type) THEN watchers
                                                ELSE watchers \ {c}
  /\ wctx' = IF ~dies /\ context.deleteAfterCallback_
             THEN [wctx EXCEPT ![c].freed = TRUE, ![c].frees = @ + 1,
                               ![c].staleUse = context.freed]
             ELSE [wctx EXCEPT ![c].staleUse = context.freed]
  /\ UNCHANGED inited_

\* watchCallback entered with a watcherCtx that an earlier dispatch deleted,
\* the memory having been reused or unmapped since: the process dies.
watchCallback_crash(c, type, state) ==
  /\ ~aborted
  /\ inited_
  /\ c \in watchers
  /\ wctx[c].freed
  /\ ~wctx[c].staleUse
  /\ Len(stateHist) <= MaxEvents
  /\ wctx' = [wctx EXCEPT ![c].staleUse = TRUE]
  /\ aborted' = TRUE
  /\ UNCHANGED <<state_, inited_, stateHist, watchers, lastEv>>

NextWatch ==
  \/ /\ \E w \in BOOLEAN, ok \in BOOLEAN : init(w, ok)
     /\ UNCHANGED <<buildVars, complVars, refVars, syncVars, pipeVars, callVars, xidVars, critVars, blockVars, moreVars>>
  \/ /\ registerWatch
     /\ UNCHANGED <<buildVars, complVars, refVars, syncVars, pipeVars, callVars, xidVars, critVars, blockVars, moreVars>>
  \/ /\ \E c \in 1..Len(wctx), t \in EventTypes, s \in EventStates :
          /\ NodeEventState(t, s)
          /\ watchCallback(c, t, s)
     /\ UNCHANGED <<buildVars, complVars, refVars, syncVars, pipeVars, callVars, xidVars, critVars, blockVars, moreVars>>
  \/ /\ \E c \in 1..Len(wctx), t \in EventTypes, s \in EventStates :
          /\ NodeEventState(t, s)
          /\ watchCallback_crash(c, t, s)
     /\ UNCHANGED <<buildVars, complVars, refVars, syncVars, pipeVars, callVars, xidVars, critVars, blockVars, moreVars>>

\* The dispatcher as the engine may call it with what a server sent: the
\* state of a WatcherEvent is read off the wire, and a node event can carry
\* any value.
WireEventTypes == EventTypes
WireStates == {"Expired", "Connecting", "Connected", "Unknown9999"}

NextWire ==
  \/ /\ \E w \in BOOLEAN, ok \in BOOLEAN : init(w, ok)
     /\ UNCHANGED <<buildVars, complVars, refVars, syncVars, pipeVars, callVars, xidVars, critVars, blockVars, moreVars>>
  \/ /\ registerWatch
     /\ UNCHANGED <<buildVars, complVars, refVars, syncVars, pipeVars, callVars, xidVars, critVars, blockVars, moreVars>>
  \/ /\ \E c \in 1..Len(wctx), t \in WireEventTypes, s \in WireStates :
          watchCallback(c, t, s)
     /\ UNCHANGED <<buildVars, complVars, refVars, syncVars, pipeVars, callVars, xidVars, critVars, blockVars, moreVars>>
  \/ /\ \E c \in 1..Len(wctx), t \in WireEventTypes, s \in WireStates :
          watchCallback_crash(c, t, s)
     /\ UNCHANGED <<buildVars, complVars, refVars, syncVars, pipeVars, callVars, xidVars, critVars, blockVars, moreVars>>

----------------------------------------------------------------------------
(***************************************************************************)
(* Completion adapters                                                     *)
(***************************************************************************)
Kinds == {"string", "void", "stat", "data", "children", "acl", "auth", "sync"}
ReturnCodes == {"Ok", "NoNode", "ConnectionLoss"}
NoCall == [made |-> FALSE]
NoIn == [rc |-> "Ok", payload |-> "null", callback |-> FALSE]

ComplInit ==
  /\ cKind = "none"
  /\ cPc = "idle"
  /\ cIn = NoIn
  /\ cCall = NoCall
  /\ ctxLive = FALSE
  /\ ctxDeletes = 0
  /\ ctxBadRead = FALSE
  /\ cRuns = 0

\* The adapters that assert(callback) before they use it.
AssertsCallback(kind) == kind \in {"data", "auth"}

\* What each adapter hands to the callback's payload parameters.
\*   "absent"  the callback has no such parameter
\*   "empty"   a default-constructed local (empty string, empty vector)
\*   "copy"    a local filled from the engine's buffer
\*   "uninit"  a local that was never written
\*   "null", "engine"   the engine's pointer, passed through as it came
ValueArg(kind, rc, payload) ==
  CASE kind \in {"string", "data"} -> IF rc = "Ok" THEN "copy" ELSE "empty"
    [] OTHER -> "absent"

StatArg(kind, rc, payload) ==
  CASE kind \in {"stat", "children", "acl"} -> payload
    [] kind = "data" -> IF rc = "Ok" THEN "copy" ELSE "uninit"
    [] OTHER -> "absent"

ListArg(kind, rc, payload) ==
  CASE kind = "children" -> IF rc = "Ok" THEN "copy" ELSE "empty"
    [] kind = "acl" -> payload
    [] OTHER -> "absent"

\* Entry of an adapter: the cast of `data`, the decoding of the payload and
\* the read of context->callback_.  The engine hands over a payload with a
\* success code; with an error code its pointers may or may not be null.
AdapterEnter(kind, rc, payload, cb) ==
  /\ cPc \in {"idle", "returned"}
  /\ cRuns < MaxRuns
  /\ rc = "Ok" => payload = "engine"
  /\ cKind' = kind
  /\ cIn' = [rc |-> rc, payload |-> payload, callback |-> cb]
  /\ cCall' = NoCall
  /\ ctxLive' = TRUE
  /\ ctxDeletes' = 0
  /\ ctxBadRead' = FALSE
  /\ cRuns' = cRuns + 1
  /\ cPc' = "decoded"

\* if (callback) callback->processResult(rc, context->path_, ...)
\* dataCompletion and authCompletion assert(callback) instead: without a
\* callback the assert aborts, and with NDEBUG the call goes through a null
\* pointer, which may crash or fall through.
AdapterCall ==
  /\ cPc = "decoded"
  /\ ctxBadRead' = (ctxBadRead \/ ~ctxLive)
  /\ IF cIn.callback
     THEN /\ cCall' = [made |-> TRUE, rc |-> cIn.rc,
                       value |-> ValueArg(cKind, cIn.rc, cIn.payload),
                       stat |-> StatArg(cKind, cIn.rc, cIn.payload),
                       list |-> ListArg(cKind, cIn.rc, cIn.payload)]
          /\ cPc' = "called"
     ELSE /\ cCall' = cCall
          /\ IF AssertsCallback(cKind)
             THEN IF ndebug THEN cPc' \in {"crashed", "called"}
                            ELSE cPc' = "crashed"
             ELSE cPc' = "called"
  /\ UNCHANGED <<cKind, cIn, ctxLive, ctxDeletes, cRuns>>

\* delete context;
AdapterDelete ==
  /\ cPc = "called"
  /\ ctxLive' = FALSE
  /\ ctxDeletes' = ctxDeletes + 1
  /\ cPc' = "returned"
  /\ UNCHANGED <<cKind, cIn, cCall, ctxBadRead, cRuns>>

NextCompl ==
  \/ /\ \E k \in Kinds, rc \in ReturnCodes, p \in {"null", "engine"},
           cb \in BOOLEAN : AdapterEnter(k, rc, p, cb)
     /\ UNCHANGED <<buildVars, watchVars, refVars, syncVars, pipeVars, callVars, xidVars, critVars, blockVars, moreVars>>
  \/ /\ AdapterCall
     /\ UNCHANGED <<buildVars, watchVars, refVars, syncVars, pipeVars, callVars, xidVars, critVars, blockVars, moreVars>>
  \/ /\ AdapterDelete
     /\ UNCHANGED <<buildVars, watchVars, refVars, syncVars, pipeVars, callVars, xidVars, critVars, blockVars, moreVars>>

----------------------------------------------------------------------------
(***************************************************************************)
(* Reference counter                                                       *)
(***************************************************************************)
Threads == 1..RefThreads
\* the `i` arguments callers pass: any non-zero int, here 1 and 2 and their
\* negatives
Deltas == {1, 2}

\* int32_t arithmetic: a + incr for incr in {-1, 0, 1}, wrapping as xaddl does
Int32Max == 2147483647
Int32Min == -Int32Max - 1
Add32(a, incr) ==
  IF incr = 1 /\ a = Int32Max THEN Int32Min
  ELSE IF incr = -1 /\ a = Int32Min THEN Int32Max
  ELSE a + incr

NoRefCall == [made |-> FALSE]
RefCall(i, old, r, held) ==
  [made |-> TRUE, i |-> i, old |-> old, v |-> r.v, after |-> r.counter,
   held |-> held]

RefInit ==
  /\ ref_counter = 0
  /\ rHeld = [t \in Threads |-> FALSE]
  /\ rRounds = [t \in Threads |-> 0]
  /\ rRet = [t \in Threads |-> 0]
  /\ zeroObs = 0
  /\ drops = 0
  /\ rCall = NoRefCall

\* an add-and-fetch in the place of the fetch-and-add
fetch_and_add_ReturnsNew(old, incr) ==
  [result |-> Add32(old, incr), operand |-> Add32(old, incr)]

\* fetch_and_add(operand, incr): "lock xaddl" adds incr to *operand and
\* yields the value *operand had, in one indivisible step.
fetch_and_add(old, incr) == [result |-> old, operand |-> Add32(old, incr)]

\* inc_ref_counter without its "simulate pre-increment" line
inc_ref_counter_AddsArgument(old, i) ==
  LET fa == fetch_and_add(old, i)
  IN [v |-> Add32(fa.result, i), counter |-> fa.operand]

inc_ref_counter_NoPreIncrement(old, i) ==
  LET incr == IF i < 0 THEN -1 ELSE IF i > 0 THEN 1 ELSE 0
      fa == fetch_and_add(old, incr)
  IN [v |-> fa.result, counter |-> fa.operand]

\* inc_ref_counter(zh, i): what it returns and what it leaves in
\* zh->ref_counter, given the counter it found
inc_ref_counter(old, i) ==
  LET incr == IF i < 0 THEN -1 ELSE IF i > 0 THEN 1 ELSE 0
      fa == fetch_and_add(old, incr)
  IN [v |-> Add32(fa.result, incr), counter |-> fa.operand]

\* a thread takes a reference: inc_ref_counter(zh, i), i > 0
RefAcquire(t, i) ==
  LET r == inc_ref_counter(ref_counter, i) IN
  /\ ~rHeld[t]
  /\ rRounds[t] < RefRounds
  /\ ref_counter' = r.counter
  /\ rRet' = [rRet EXCEPT ![t] = r.v]
  /\ rHeld' = [rHeld EXCEPT ![t] = TRUE]
  /\ rCall' = RefCall(i, ref_counter, r,
                      Cardinality({u \in Threads : rHeld[u]} \cup {t}))
  /\ UNCHANGED <<rRounds, zeroObs, drops>>

\* a thread gives its reference up: inc_ref_counter(zh, -i)
RefRelease(t, i) ==
  LET r == inc_ref_counter(ref_counter, -i) IN
  /\ rHeld[t]
  /\ ref_counter' = r.counter
  /\ rRet' = [rRet EXCEPT ![t] = r.v]
  /\ rHeld' = [rHeld EXCEPT ![t] = FALSE]
  /\ rRounds' = [rRounds EXCEPT ![t] = @ + 1]
  /\ zeroObs' = IF r.v = 0 THEN zeroObs + 1 ELSE zeroObs
  /\ drops' = IF \A u \in Threads \ {t} : ~rHeld[u] THEN drops + 1 ELSE drops
  /\ rCall' = RefCall(-i, ref_counter, r,
                      Cardinality({u \in Threads : rHeld[u]} \ {t}))

\* a thread that holds a reference reads the count: inc_ref_counter(zh, 0)
RefPeek(t) ==
  LET r == inc_ref_counter(ref_counter, 0) IN
  /\ rHeld[t]
  /\ ref_counter' = r.counter
  /\ rRet' = [rRet EXCEPT ![t] = r.v]
  /\ rCall' = RefCall(0, ref_counter, r,
                      Cardinality({u \in Threads : rHeld[u]}))
  /\ UNCHANGED <<rHeld, rRounds, zeroObs, drops>>

NextRef ==
  \/ /\ \E t \in Threads : RefPeek(t)
     /\ UNCHANGED <<buildVars, watchVars, complVars, syncVars, pipeVars, callVars, xidVars, critVars, blockVars, moreVars>>
  \/ /\ \E t \in Threads, i \in Deltas : RefAcquire(t, i)
     /\ UNCHANGED <<buildVars, watchVars, complVars, syncVars, pipeVars, callVars, xidVars, critVars, blockVars, moreVars>>
  \/ /\ \E t \in Threads, i \in Deltas : RefRelease(t, i)
     /\ UNCHANGED <<buildVars, watchVars, complVars, syncVars, pipeVars, callVars, xidVars, critVars, blockVars, moreVars>>

----------------------------------------------------------------------------
(***************************************************************************)
(* Synchronous adapter                                                     *)
(***************************************************************************)
\* codes a submission can return at once (zoo_awexists)
SubmitCodes == {"Ok", "InvalidState"}

SyncInit ==
  /\ completed_ = FALSE
  /\ rc_ = "unset"
  /\ mutex_ = "none"
  /\ condWaiters = {}
  /\ ePc = "idle"
  /\ eRet = "none"
  /\ eWaited = FALSE
  /\ dPc = "idle"
  /\ dRc = "none"
  /\ scComplete = FALSE
  /\ scLock = "none"
  /\ scWaiters = {}
  /\ sPc = "idle"
  /\ nPc = "idle"

scVars == <<scComplete, scLock, scWaiters, sPc, nPc>>

\* ZooKeeperImpl::exists (blocking): new ExistsCallback(stat), then the
\* asynchronous exists; an error is returned at once.
\* The struct Stat* a caller hands to the blocking exists.
StatPointers == {"null", "caller"}

existsSubmit(rc, stat) ==
  /\ ePc = "idle"
  /\ stat_' = stat
  /\ callerStat' = callerStat
  /\ IF rc = "Ok"
     THEN ePc' = "w_lock" /\ dPc' = "pending" /\ eRet' = eRet
     ELSE ePc' = "returned" /\ dPc' = dPc /\ eRet' = rc
  /\ UNCHANGED <<completed_, rc_, mutex_, condWaiters, eWaited, dRc, scVars>>

\* waitForCompleted: boost::unique_lock<boost::mutex> lock(mutex_);
waitLock ==
  /\ ePc = "w_lock"
  /\ mutex_ = "none"
  /\ mutex_' = "caller"
  /\ ePc' = "w_test"
  /\ UNCHANGED <<completed_, rc_, condWaiters, eRet, eWaited, dPc, dRc, scVars>>

\* `if (!completed_) cond_.wait(lock);` in place of the loop
waitTest_NoLoop ==
  /\ ePc = "w_test"
  /\ mutex_' = "none"
  /\ IF ~completed_ /\ ~eWaited
     THEN /\ condWaiters' = condWaiters \cup {"caller"}
          /\ eWaited' = TRUE
          /\ ePc' = "w_wait"
     ELSE /\ ePc' = "w_ret"
          /\ UNCHANGED <<condWaiters, eWaited>>
  /\ UNCHANGED <<completed_, rc_, eRet, dPc, dRc, scVars>>

\* waitForCompleted: while (!completed_) cond_.wait(lock);  the wait gives
\* the mutex up and blocks in one step; leaving the loop ends the function
\* and unlocks.
waitTest ==
  /\ ePc = "w_test"
  /\ mutex_' = "none"
  /\ IF ~completed_
     THEN /\ condWaiters' = condWaiters \cup {"caller"}
          /\ eWaited' = TRUE
          /\ ePc' = "w_wait"
     ELSE /\ ePc' = "w_ret"
          /\ UNCHANGED <<condWaiters, eWaited>>
  /\ UNCHANGED <<completed_, rc_, eRet, dPc, dRc, scVars>>

\* cond_.wait returns: the thread was woken and has the mutex again
waitWake ==
  /\ ePc = "w_wait"
  /\ "caller" \notin condWaiters
  /\ mutex_ = "none"
  /\ mutex_' = "caller"
  /\ ePc' = "w_test"
  /\ UNCHANGED <<completed_, rc_, condWaiters, eRet, eWaited, dPc, dRc, scVars>>

\* a condition variable may wake a waiter that nobody notified
spuriousWake ==
  /\ "caller" \in condWaiters
  /\ condWaiters' = condWaiters \ {"caller"}
  /\ UNCHANGED <<completed_, rc_, mutex_, ePc, eRet, eWaited, dPc, dRc, scVars>>

\* return callback->rc_;
existsReturn ==
  /\ ePc = "w_ret"
  /\ eRet' = rc_
  /\ ePc' = "returned"
  /\ UNCHANGED <<completed_, rc_, mutex_, condWaiters, eWaited, dPc, dRc, scVars>>

\* ExistsCallback::processResult(rc, path, stat), called by the thread that
\* delivers the completion: rc_ = rc; path_ = path;
processResult_rc_AnyRc(rc) ==
  /\ dPc = "pending"
  /\ callerStat' = IF stat_ # "null" THEN "node" ELSE callerStat
  /\ stat_' = stat_
  /\ dRc' = rc
  /\ rc_' = rc
  /\ dPc' = "p_lock"
  /\ UNCHANGED <<completed_, mutex_, condWaiters, ePc, eRet, eWaited, scVars>>

processResult_rc(rc) ==
  /\ dPc = "pending"
  /\ callerStat' = IF rc = "Ok" /\ stat_ # "null" THEN "node" ELSE callerStat
  /\ stat_' = stat_
  /\ dRc' = rc
  /\ rc_' = rc
  /\ dPc' = "p_lock"
  /\ UNCHANGED <<completed_, mutex_, condWaiters, ePc, eRet, eWaited, scVars>>

\* { boost::lock_guard<boost::mutex> lock(mutex_);
processResult_lock ==
  /\ dPc = "p_lock"
  /\ mutex_ = "none"
  /\ mutex_' = "deliverer"
  /\ dPc' = "p_set"
  /\ UNCHANGED <<completed_, rc_, condWaiters, ePc, eRet, eWaited, dRc, scVars>>

\*   completed_ = true; }
processResult_set ==
  /\ dPc = "p_set"
  /\ completed_' = TRUE
  /\ mutex_' = "none"
  /\ dPc' = "p_notify"
  /\ UNCHANGED <<rc_, condWaiters, ePc, eRet, eWaited, dRc, scVars>>

\* cond_.notify_all();
processResult_notify ==
  /\ dPc = "p_notify"
  /\ condWaiters' = {}
  /\ dPc' = "p_done"
  /\ UNCHANGED <<completed_, rc_, mutex_, ePc, eRet, eWaited, dRc, scVars>>

exVars == <<completed_, rc_, mutex_, condWaiters, ePc, eRet, eWaited, dPc, dRc>>

\* wait_sync_completion(sc): boost::unique_lock<boost::mutex> lock(sc->lock_);
wait_sync_lock ==
  /\ sPc \in {"idle", "s_woken"}
  /\ (sPc = "s_woken") => ("waiter" \notin scWaiters)
  /\ scLock = "none"
  /\ scLock' = "waiter"
  /\ sPc' = "s_test"
  /\ UNCHANGED <<scComplete, scWaiters, nPc, exVars>>

\* while (!sc->complete) sc->cond_.wait(lock);  return 0;
wait_sync_test ==
  /\ sPc = "s_test"
  /\ scLock' = "none"
  /\ IF ~scComplete
     THEN scWaiters' = scWaiters \cup {"waiter"} /\ sPc' = "s_woken"
     ELSE scWaiters' = scWaiters /\ sPc' = "returned"
  /\ UNCHANGED <<scComplete, nPc, exVars>>

sync_spuriousWake ==
  /\ "waiter" \in scWaiters
  /\ scWaiters' = scWaiters \ {"waiter"}
  /\ UNCHANGED <<scComplete, scLock, sPc, nPc, exVars>>

\* notify_sync_completion(sc): boost::unique_lock<boost::mutex> lock(sc->lock_);
notify_sync_lock ==
  /\ nPc = "idle"
  /\ scLock = "none"
  /\ scLock' = "notifier"
  /\ nPc' = "n_locked"
  /\ UNCHANGED <<scComplete, scWaiters, sPc, exVars>>

\* sc->complete = 1; sc->cond_.notify_all();  and the unlock at the end
notify_sync_completion ==
  /\ nPc = "n_locked"
  /\ scComplete' = TRUE
  /\ scWaiters' = {}
  /\ scLock' = "none"
  /\ nPc' = "done"
  /\ UNCHANGED <<sPc, exVars>>

otherThanSync == <<buildVars, watchVars, complVars, refVars, pipeVars,
                   callVars, xidVars, critVars, blockVars, moreVars>>
otherThanSyncStat == <<buildVars, watchVars, complVars, refVars, pipeVars,
                       callVars, xidVars, critVars, blockVars, pollVars,
                       lifeVars, sendVars, opVars>>

\* the steps of the thread inside the blocking exists
callerStep ==
  /\ waitLock \/ waitTest \/ waitWake \/ existsReturn
  /\ UNCHANGED otherThanSync

\* the steps of the thread inside wait_sync_completion
waiterStep ==
  /\ wait_sync_lock \/ wait_sync_test
  /\ UNCHANGED otherThanSync

NextSync ==
  \/ /\ \E rc \in SubmitCodes, stat \in StatPointers : existsSubmit(rc, stat)
     /\ UNCHANGED otherThanSyncStat
  \/ callerStep
  \/ /\ spuriousWake
     /\ UNCHANGED otherThanSync
  \/ /\ \E rc \in ReturnCodes : processResult_rc(rc)
     /\ UNCHANGED otherThanSyncStat
  \/ /\ processResult_lock
     /\ UNCHANGED otherThanSync
  \/ /\ processResult_set
     /\ UNCHANGED otherThanSync
  \/ /\ processResult_notify
     /\ UNCHANGED otherThanSync
  \/ waiterStep
  \/ /\ sync_spuriousWake
     /\ UNCHANGED otherThanSync
  \/ /\ notify_sync_lock
     /\ UNCHANGED otherThanSync
  \/ /\ notify_sync_completion
     /\ UNCHANGED otherThanSync

----------------------------------------------------------------------------
(***************************************************************************)
(* Thread pair, startup barrier, completion queue and shutdown             *)
(*                                                                         *)
(* The session engine (zookeeper_interest, zookeeper_process,              *)
(* process_completions, api_prolog, api_epilog, zookeeper_close and the    *)
(* zoo_a* calls) is not part of the adaptor; it is modelled by what the    *)
(* design says it does.  A critical section that cannot block is one step. *)
(***************************************************************************)
Requests == 1..MaxReq
Range(q) == {q[k] : k \in DOMAIN q}

\* the handle before adaptor_init, adaptor_priv aside
PipeRest ==
  /\ threadsToWait = 0
  /\ barrierWaiters = {}
  /\ close_requested = FALSE
  /\ unrecoverable = FALSE
  /\ selfPipe = 0
  /\ pollin = FALSE
  /\ pending = <<>>
  /\ queue = <<>>
  /\ qLock = "none"
  /\ qWaiters = {}
  /\ appPc = "start"
  /\ ioPc = "none"
  /\ compPc = "none"
  /\ cur = 0
  /\ initRet = <<>>
  /\ hasCb = <<>>
  /\ invoked = <<>>
  /\ enqLog = <<>>
  /\ delivered = <<>>
  /\ queuedAtClose = {}
  /\ destroyed = 0
  /\ ioThread = "none"
  /\ compThread = "none"
  /\ joinCalls = {}
  /\ procRc = "Ok"
  /\ ioTerminal = FALSE
  /\ lateEnq = FALSE
  /\ unserved = FALSE
  /\ drainLeft = 0
  /\ initAlloc = [callocs |-> 0, frees |-> 0]

PipeInit ==
  /\ adaptor_priv = FALSE
  /\ PipeRest

\* api_prolog(zh): one more reference to the handle
api_prolog == ref_counter' = inc_ref_counter(ref_counter, 1).counter

\* The engine gives up the handle: every request still pending at the
\* engine is completed with a closing code, its callback invoked once.
destroy ==
  /\ invoked' = [r \in DOMAIN invoked |->
                   IF r \in Range(pending) /\ hasCb[r] THEN invoked[r] + 1
                   ELSE invoked[r]]
  /\ pending' = <<>>
  /\ destroyed' = destroyed + 1

\* api_epilog(zh, rc): the reference is given back; the thread whose
\* decrement returns zero after close was requested destroys the handle.
api_epilog ==
  LET r == inc_ref_counter(ref_counter, -1) IN
  /\ ref_counter' = r.counter
  /\ IF r.v = 0 /\ close_requested
     THEN destroy
     ELSE UNCHANGED <<invoked, pending, destroyed>>

\* a wakeup that writes nothing
wakeup_io_thread_NoWrite == selfPipe' = selfPipe

\* wakeup_io_thread(zh): write(self_pipe[1], &c, 1)
wakeup_io_thread == selfPipe' = selfPipe + 1

RECURSIVE Flush(_)
\* char b[128]; while (read(self_pipe[0], b, sizeof(b)) == sizeof(b)) {}
\* on the non-blocking read end holding n bytes: what is left in the pipe.
\* A read takes PipeChunk bytes when there are that many and the loop
\* goes on; a shorter read, or none (EAGAIN), ends it.
Flush(n) == IF n >= PipeChunk THEN Flush(n - PipeChunk) ELSE 0

\* what calloc and pipe() do in one call of adaptor_init
InitOutcomes == {"ok", "calloc_fails", "pipe_fails"}

\* the failure branch of pipe() without its free
free_adaptor_threads_Leak == initAlloc' = [callocs |-> 1, frees |-> 0]

\* adaptor_init: calloc succeeded, pipe() failed, free(adaptor_threads)
free_adaptor_threads == initAlloc' = [callocs |-> 1, frees |-> 1]

\* adaptor_init up to the first thread.  calloc fails: return -1.  pipe()
\* fails: the block is freed, return -1.  Otherwise adaptor_priv is set and
\* start_threads sets threadsToWait = 2 and takes a reference.
adaptor_init(outcome) ==
  /\ appPc = "start"
  /\ IF outcome = "ok"
     THEN /\ initAlloc' = [callocs |-> 1, frees |-> 0]
          /\ adaptor_priv' = TRUE
          /\ threadsToWait' = 2
          /\ api_prolog
          /\ appPc' = "st_io"
          /\ initRet' = initRet
     ELSE /\ IF outcome = "calloc_fails"
             THEN initAlloc' = initAlloc
             ELSE free_adaptor_threads
          /\ appPc' = "init_failed"
          /\ initRet' = <<-1>>
          /\ UNCHANGED <<adaptor_priv, threadsToWait, ref_counter>>
  /\ UNCHANGED <<barrierWaiters, close_requested, unrecoverable, selfPipe,
                 pollin, pending, queue, qLock, qWaiters, ioPc, compPc,
                 cur, hasCb, invoked, enqLog, delivered, queuedAtClose,
                 destroyed>>
  /\ UNCHANGED joinVars
  /\ UNCHANGED ioVars

\* start_threads: adaptor->io = boost::thread(do_io, zh);
start_io ==
  /\ appPc = "st_io"
  /\ ioPc' = "t_start"
  /\ ioThread' = "joinable"
  /\ appPc' = "st_comp"
  /\ UNCHANGED <<compThread, joinCalls>>
  /\ UNCHANGED ref_counter
  /\ UNCHANGED <<adaptor_priv, threadsToWait, barrierWaiters,
                 close_requested, unrecoverable, selfPipe, pollin, pending,
                 queue, qLock, qWaiters, compPc, cur, initRet, hasCb,
                 invoked, enqLog, delivered, queuedAtClose, destroyed>>
  /\ UNCHANGED ioVars
  /\ UNCHANGED allocVars

\* start_threads: adaptor->completion = boost::thread(do_completion, zh);
start_completion ==
  /\ appPc = "st_comp"
  /\ compPc' = "t_start"
  /\ compThread' = "joinable"
  /\ appPc' = "wfo"
  /\ UNCHANGED <<ioThread, joinCalls>>
  /\ UNCHANGED ref_counter
  /\ UNCHANGED <<adaptor_priv, threadsToWait, barrierWaiters,
                 close_requested, unrecoverable, selfPipe, pollin, pending,
                 queue, qLock, qWaiters, ioPc, cur, initRet, hasCb,
                 invoked, enqLog, delivered, queuedAtClose, destroyed>>
  /\ UNCHANGED ioVars
  /\ UNCHANGED allocVars

\* wait_for_others with `threadsToWait > 1` as its loop condition
wait_for_others_OffByOne ==
  /\ \/ appPc = "wfo"
     \/ appPc = "wfo_wait" /\ "app" \notin barrierWaiters
  /\ IF threadsToWait > 1
     THEN /\ barrierWaiters' = barrierWaiters \cup {"app"}
          /\ appPc' = "wfo_wait"
     ELSE /\ barrierWaiters' = barrierWaiters
          /\ appPc' = "st_epilog"
  /\ UNCHANGED ref_counter
  /\ UNCHANGED <<adaptor_priv, threadsToWait, close_requested,
                 unrecoverable, selfPipe, pollin, pending, queue, qLock,
                 qWaiters, ioPc, compPc, cur, initRet, hasCb, invoked,
                 enqLog, delivered, queuedAtClose, destroyed>>
  /\ UNCHANGED joinVars
  /\ UNCHANGED ioVars
  /\ UNCHANGED allocVars

\* wait_for_others: under adaptor->lock, while (threadsToWait > 0) wait.
\* The first test, and each test after a wakeup.
wait_for_others ==
  /\ \/ appPc = "wfo"
     \/ appPc = "wfo_wait" /\ "app" \notin barrierWaiters
  /\ IF threadsToWait > 0
     THEN /\ barrierWaiters' = barrierWaiters \cup {"app"}
          /\ appPc' = "wfo_wait"
     ELSE /\ barrierWaiters' = barrierWaiters
          /\ appPc' = "st_epilog"
  /\ UNCHANGED ref_counter
  /\ UNCHANGED <<adaptor_priv, threadsToWait, close_requested,
                 unrecoverable, selfPipe, pollin, pending, queue, qLock,
                 qWaiters, ioPc, compPc, cur, initRet, hasCb, invoked,
                 enqLog, delivered, queuedAtClose, destroyed>>
  /\ UNCHANGED joinVars
  /\ UNCHANGED ioVars
  /\ UNCHANGED allocVars

\* start_threads: api_epilog(zh, 0); adaptor_init returns 0
start_threads_epilog ==
  /\ appPc = "st_epilog"
  /\ api_epilog
  /\ initRet' = <<0>>
  /\ appPc' = "ready"
  /\ UNCHANGED <<adaptor_priv, threadsToWait, barrierWaiters,
                 close_requested, unrecoverable, selfPipe, pollin, queue,
                 qLock, qWaiters, ioPc, compPc, cur, hasCb, enqLog,
                 delivered, queuedAtClose>>
  /\ UNCHANGED joinVars
  /\ UNCHANGED ioVars
  /\ UNCHANGED allocVars

\* A request call (create, exists, get, ...) with or without a callback.
\* The engine either refuses it at once or keeps it as pending and calls
\* adaptor_send_queue, which wakes the I/O thread unless close was
\* requested.  A session that is unrecoverable refuses every request.
submit(cb, ok) ==
  /\ appPc = "ready"
  /\ destroyed = 0
  /\ Len(hasCb) < reqBudget
  /\ unrecoverable => ~ok
  /\ IF ok
     THEN /\ pending' = Append(pending, Len(hasCb) + 1)
          /\ hasCb' = Append(hasCb, cb)
          /\ invoked' = Append(invoked, 0)
          /\ IF ~close_requested THEN wakeup_io_thread
                                 ELSE selfPipe' = selfPipe
     ELSE UNCHANGED <<pending, hasCb, invoked, selfPipe>>
  /\ UNCHANGED ref_counter
  /\ UNCHANGED <<adaptor_priv, threadsToWait, barrierWaiters,
                 close_requested, unrecoverable, pollin, queue, qLock,
                 qWaiters, appPc, ioPc, compPc, cur, initRet, enqLog,
                 delivered, queuedAtClose, destroyed>>
  /\ UNCHANGED joinVars
  /\ unserved' = (unserved \/ (ok /\ ~close_requested))
  /\ UNCHANGED <<procRc, ioTerminal, lateEnq, drainLeft>>
  /\ UNCHANGED allocVars

\* ---- zookeeper_close and adaptor_finish, on the thread th ----
Closers == {"app", "io", "comp"}

Pc(th) == IF th = "app" THEN appPc ELSE IF th = "io" THEN ioPc ELSE compPc

SetPc(th, v) ==
  /\ appPc' = IF th = "app" THEN v ELSE appPc
  /\ ioPc' = IF th = "io" THEN v ELSE ioPc
  /\ compPc' = IF th = "comp" THEN v ELSE compPc

\* where th calls zookeeper_close: the application between two calls, a
\* worker inside the user code it runs (a callback on the Completion
\* thread; an event delivered in the I/O thread's processing step)
InUserCode(th) ==
  \/ th = "app" /\ appPc = "ready"
  \/ th = "io" /\ ioPc = "process"
  \/ th = "comp" /\ compPc = "call" /\ hasCb[cur]

\* where th goes on when zookeeper_close has returned
AfterClose(th) ==
  IF th = "app" THEN "closed" ELSE IF th = "io" THEN "process" ELSE "cb_ret"

\* zookeeper_close: close_requested is set and the closing thread holds a
\* reference while it runs adaptor_finish.  The handle is closed once.
zookeeper_close(th) ==
  /\ InUserCode(th)
  /\ ~close_requested
  /\ close_requested' = TRUE
  /\ queuedAtClose' = Range(queue)
  /\ api_prolog
  /\ SetPc(th, "f_prolog")
  /\ UNCHANGED <<adaptor_priv, threadsToWait, barrierWaiters,
                 unrecoverable, selfPipe, pollin, pending, queue, qLock,
                 qWaiters, cur, initRet, hasCb, invoked, enqLog, delivered,
                 destroyed>>
  /\ UNCHANGED joinVars
  /\ UNCHANGED ioVars
  /\ UNCHANGED allocVars

\* adaptor_finish: api_prolog(zh); return at once when adaptor_priv is 0
adaptor_finish_prolog(th) ==
  /\ Pc(th) = "f_prolog"
  /\ IF adaptor_priv
     THEN api_prolog /\ SetPc(th, "f_io")
     ELSE UNCHANGED ref_counter /\ SetPc(th, "c_epilog")
  /\ UNCHANGED <<adaptor_priv, threadsToWait, barrierWaiters,
                 close_requested, unrecoverable, selfPipe, pollin, pending,
                 queue, qLock, qWaiters, cur, initRet, hasCb, invoked,
                 enqLog, delivered, queuedAtClose, destroyed>>
  /\ UNCHANGED joinVars
  /\ UNCHANGED ioVars
  /\ UNCHANGED allocVars

\* a self test that never answers yes
this_thread_is_Never(th, worker) == FALSE

\* boost::this_thread::get_id() == adaptor_threads-><worker>.get_id()
this_thread_is(th, worker) == th = worker

\* adaptor_finish: if (this thread is io) io.detach();
\*                 else { wakeup_io_thread(zh); io.join(); }
\* up to the call of join
adaptor_finish_wakeup(th) ==
  /\ Pc(th) = "f_io"
  /\ IF this_thread_is(th, "io")
     THEN /\ ioThread' = "detached"
          /\ SetPc(th, "f_comp")
          /\ UNCHANGED <<selfPipe, joinCalls>>
     ELSE /\ wakeup_io_thread
          /\ joinCalls' = joinCalls \cup {<<th, "io">>}
          /\ SetPc(th, "f_joinio")
          /\ UNCHANGED ioThread
  /\ UNCHANGED ref_counter
  /\ UNCHANGED <<adaptor_priv, threadsToWait, barrierWaiters,
                 close_requested, unrecoverable, pollin, pending, queue,
                 qLock, qWaiters, cur, initRet, hasCb, invoked, enqLog,
                 delivered, queuedAtClose, destroyed, compThread>>
  /\ unserved' = (unserved \/ ~this_thread_is(th, "io"))
  /\ UNCHANGED <<procRc, ioTerminal, lateEnq, drainLeft>>
  /\ UNCHANGED allocVars

\* adaptor_threads->io.join() returns: the I/O thread has terminated
adaptor_finish_join_io(th) ==
  /\ Pc(th) = "f_joinio"
  /\ ioPc = "done"
  /\ ioThread' = "joined"
  /\ SetPc(th, "f_comp")
  /\ UNCHANGED ref_counter
  /\ UNCHANGED <<adaptor_priv, threadsToWait, barrierWaiters,
                 close_requested, unrecoverable, selfPipe, pollin, pending,
                 queue, qLock, qWaiters, cur, initRet, hasCb, invoked,
                 enqLog, delivered, queuedAtClose, destroyed, compThread,
                 joinCalls>>
  /\ UNCHANGED ioVars
  /\ UNCHANGED allocVars

\* adaptor_finish whose else branch does not notify the queue's condition
adaptor_finish_notify_NoNotify(th) ==
  /\ Pc(th) = "f_comp"
  /\ IF this_thread_is(th, "comp")
     THEN /\ compThread' = "detached"
          /\ SetPc(th, "f_epilog")
          /\ UNCHANGED <<qWaiters, joinCalls>>
     ELSE /\ qLock = "none"
          /\ qWaiters' = qWaiters
          /\ joinCalls' = joinCalls \cup {<<th, "comp">>}
          /\ SetPc(th, "f_joincomp")
          /\ UNCHANGED compThread
  /\ UNCHANGED ref_counter
  /\ UNCHANGED <<adaptor_priv, threadsToWait, barrierWaiters,
                 close_requested, unrecoverable, selfPipe, pollin, pending,
                 queue, qLock, cur, initRet, hasCb, invoked, enqLog,
                 delivered, queuedAtClose, destroyed, ioThread>>
  /\ UNCHANGED ioVars
  /\ UNCHANGED allocVars

\* adaptor_finish: if (this thread is completion) completion.detach();
\*                 else { lock the queue's mutex; cond.notify_all();
\*                        unlock; completion.join(); }
\* up to the call of join
adaptor_finish_notify(th) ==
  /\ Pc(th) = "f_comp"
  /\ IF this_thread_is(th, "comp")
     THEN /\ compThread' = "detached"
          /\ SetPc(th, "f_epilog")
          /\ UNCHANGED <<qWaiters, joinCalls>>
     ELSE /\ qLock = "none"
          /\ qWaiters' = {}
          /\ joinCalls' = joinCalls \cup {<<th, "comp">>}
          /\ SetPc(th, "f_joincomp")
          /\ UNCHANGED compThread
  /\ UNCHANGED ref_counter
  /\ UNCHANGED <<adaptor_priv, threadsToWait, barrierWaiters,
                 close_requested, unrecoverable, selfPipe, pollin, pending,
                 queue, qLock, cur, initRet, hasCb, invoked, enqLog,
                 delivered, queuedAtClose, destroyed, ioThread>>
  /\ UNCHANGED ioVars
  /\ UNCHANGED allocVars

\* adaptor_threads->completion.join() returns: the Completion thread has
\* terminated
adaptor_finish_join_completion(th) ==
  /\ Pc(th) = "f_joincomp"
  /\ compPc = "done"
  /\ compThread' = "joined"
  /\ SetPc(th, "f_epilog")
  /\ UNCHANGED ref_counter
  /\ UNCHANGED <<adaptor_priv, threadsToWait, barrierWaiters,
                 close_requested, unrecoverable, selfPipe, pollin, pending,
                 queue, qLock, qWaiters, cur, initRet, hasCb, invoked,
                 enqLog, delivered, queuedAtClose, destroyed, ioThread,
                 joinCalls>>
  /\ UNCHANGED ioVars
  /\ UNCHANGED allocVars

\* adaptor_finish returning without its api_epilog
adaptor_finish_epilog_NoEpilog(th) ==
  /\ Pc(th) = "f_epilog"
  /\ UNCHANGED <<ref_counter, invoked, pending, destroyed>>
  /\ SetPc(th, "c_epilog")
  /\ UNCHANGED <<adaptor_priv, threadsToWait, barrierWaiters,
                 close_requested, unrecoverable, selfPipe, pollin, queue,
                 qLock, qWaiters, cur, initRet, hasCb, enqLog, delivered,
                 queuedAtClose>>
  /\ UNCHANGED joinVars
  /\ UNCHANGED ioVars
  /\ UNCHANGED allocVars

\* adaptor_finish: api_epilog(zh, 0)
adaptor_finish_epilog(th) ==
  /\ Pc(th) = "f_epilog"
  /\ api_epilog
  /\ SetPc(th, "c_epilog")
  /\ UNCHANGED <<adaptor_priv, threadsToWait, barrierWaiters,
                 close_requested, unrecoverable, selfPipe, pollin, queue,
                 qLock, qWaiters, cur, initRet, hasCb, enqLog, delivered,
                 queuedAtClose>>
  /\ UNCHANGED joinVars
  /\ UNCHANGED ioVars
  /\ UNCHANGED allocVars

\* zookeeper_close gives its reference back and returns to its caller
zookeeper_close_epilog(th) ==
  /\ Pc(th) = "c_epilog"
  /\ api_epilog
  /\ SetPc(th, AfterClose(th))
  /\ UNCHANGED <<adaptor_priv, threadsToWait, barrierWaiters,
                 close_requested, unrecoverable, selfPipe, pollin, queue,
                 qLock, qWaiters, cur, initRet, hasCb, enqLog, delivered,
                 queuedAtClose>>
  /\ UNCHANGED joinVars
  /\ UNCHANGED ioVars
  /\ UNCHANGED allocVars

\* ---- both worker threads ----
WorkerPc(th) == IF th = "io" THEN ioPc ELSE compPc

\* a worker that starts without taking a reference
worker_prolog_NoReference(th) ==
  /\ WorkerPc(th) = "t_start"
  /\ IF th = "io" THEN ioPc' = "nr" /\ compPc' = compPc
                  ELSE compPc' = "nr" /\ ioPc' = ioPc
  /\ UNCHANGED ref_counter
  /\ UNCHANGED <<adaptor_priv, threadsToWait, barrierWaiters,
                 close_requested, unrecoverable, selfPipe, pollin, pending,
                 queue, qLock, qWaiters, appPc, cur, initRet, hasCb,
                 invoked, enqLog, delivered, queuedAtClose, destroyed>>
  /\ UNCHANGED joinVars
  /\ UNCHANGED ioVars
  /\ UNCHANGED allocVars

\* do_io / do_completion: api_prolog(zh)
worker_prolog(th) ==
  /\ WorkerPc(th) = "t_start"
  /\ api_prolog
  /\ IF th = "io" THEN ioPc' = "nr" /\ compPc' = compPc
                  ELSE compPc' = "nr" /\ ioPc' = ioPc
  /\ UNCHANGED <<adaptor_priv, threadsToWait, barrierWaiters,
                 close_requested, unrecoverable, selfPipe, pollin, pending,
                 queue, qLock, qWaiters, appPc, cur, initRet, hasCb,
                 invoked, enqLog, delivered, queuedAtClose, destroyed>>
  /\ UNCHANGED joinVars
  /\ UNCHANGED ioVars
  /\ UNCHANGED allocVars

\* notify_thread_ready that does not wait for the counter to reach zero
notify_thread_ready_Twice(th) ==
  /\ WorkerPc(th) = "nr"
  /\ threadsToWait' = threadsToWait - 2
  /\ barrierWaiters' = {}
  /\ IF th = "io" THEN ioPc' = "loop" /\ compPc' = compPc
                  ELSE compPc' = "loop" /\ ioPc' = ioPc
  /\ UNCHANGED ref_counter
  /\ UNCHANGED <<adaptor_priv, close_requested, unrecoverable, selfPipe,
                 pollin, pending, queue, qLock, qWaiters, appPc, cur,
                 initRet, hasCb, invoked, enqLog, delivered, queuedAtClose,
                 destroyed>>
  /\ UNCHANGED joinVars
  /\ UNCHANGED ioVars
  /\ UNCHANGED allocVars

notify_thread_ready_NoWait(th) ==
  /\ WorkerPc(th) = "nr"
  /\ threadsToWait' = threadsToWait - 1
  /\ barrierWaiters' = {}
  /\ IF th = "io" THEN ioPc' = "loop" /\ compPc' = compPc
                  ELSE compPc' = "loop" /\ ioPc' = ioPc
  /\ UNCHANGED ref_counter
  /\ UNCHANGED <<adaptor_priv, close_requested, unrecoverable, selfPipe,
                 pollin, pending, queue, qLock, qWaiters, appPc, cur,
                 initRet, hasCb, invoked, enqLog, delivered, queuedAtClose,
                 destroyed>>
  /\ UNCHANGED joinVars
  /\ UNCHANGED ioVars
  /\ UNCHANGED allocVars

\* notify_thread_ready: under adaptor->lock, threadsToWait--, notify_all,
\* then while (threadsToWait > 0) wait
notify_thread_ready(th) ==
  /\ WorkerPc(th) = "nr"
  /\ threadsToWait' = threadsToWait - 1
  /\ barrierWaiters' = IF threadsToWait - 1 > 0 THEN {th} ELSE {}
  /\ LET next == IF threadsToWait - 1 > 0 THEN "nr_wait" ELSE "loop" IN
     IF th = "io" THEN ioPc' = next /\ compPc' = compPc
                  ELSE compPc' = next /\ ioPc' = ioPc
  /\ UNCHANGED ref_counter
  /\ UNCHANGED <<adaptor_priv, close_requested, unrecoverable, selfPipe,
                 pollin, pending, queue, qLock, qWaiters, appPc, cur,
                 initRet, hasCb, invoked, enqLog, delivered, queuedAtClose,
                 destroyed>>
  /\ UNCHANGED joinVars
  /\ UNCHANGED ioVars
  /\ UNCHANGED allocVars

\* notify_thread_ready: the test after a wakeup
notify_thread_ready_woken(th) ==
  /\ WorkerPc(th) = "nr_wait"
  /\ th \notin barrierWaiters
  /\ barrierWaiters' = IF threadsToWait > 0 THEN barrierWaiters \cup {th}
                                             ELSE barrierWaiters
  /\ LET next == IF threadsToWait > 0 THEN "nr_wait" ELSE "loop" IN
     IF th = "io" THEN ioPc' = next /\ compPc' = compPc
                  ELSE compPc' = next /\ ioPc' = ioPc
  /\ UNCHANGED ref_counter
  /\ UNCHANGED <<adaptor_priv, threadsToWait, close_requested,
                 unrecoverable, selfPipe, pollin, pending, queue, qLock,
                 qWaiters, appPc, cur, initRet, hasCb, invoked, enqLog,
                 delivered, queuedAtClose, destroyed>>
  /\ UNCHANGED joinVars
  /\ UNCHANGED ioVars
  /\ UNCHANGED allocVars

\* do_io / do_completion: api_epilog(zh, 0) after the loop
worker_epilog(th) ==
  /\ WorkerPc(th) = "epilog"
  /\ api_epilog
  /\ IF th = "io" THEN ioPc' = "done" /\ compPc' = compPc
                  ELSE compPc' = "done" /\ ioPc' = ioPc
  /\ UNCHANGED <<adaptor_priv, threadsToWait, barrierWaiters,
                 close_requested, unrecoverable, selfPipe, pollin, queue,
                 qLock, qWaiters, appPc, cur, initRet, hasCb, enqLog,
                 delivered, queuedAtClose>>
  /\ UNCHANGED joinVars
  /\ UNCHANGED ioVars
  /\ UNCHANGED allocVars

\* ---- the I/O thread ----
\* while (!zh->close_requested) { zookeeper_interest(...);
do_io_loop ==
  /\ ioPc = "loop"
  /\ ioPc' = IF close_requested THEN "epilog" ELSE "poll"
  /\ UNCHANGED ref_counter
  /\ UNCHANGED <<adaptor_priv, threadsToWait, barrierWaiters,
                 close_requested, unrecoverable, selfPipe, pollin, pending,
                 queue, qLock, qWaiters, appPc, compPc, cur, initRet,
                 hasCb, invoked, enqLog, delivered, queuedAtClose,
                 destroyed>>
  /\ UNCHANGED joinVars
  /\ unserved' = FALSE
  /\ UNCHANGED <<procRc, ioTerminal, lateEnq, drainLeft>>
  /\ UNCHANGED allocVars

\* poll(fds, maxfd, timeout) returns: the pipe is readable, the socket is
\* ready or the timeout ran out
do_io_poll ==
  /\ ioPc = "poll"
  /\ pollin' = (selfPipe > 0)
  /\ ioPc' = "drain"
  /\ UNCHANGED ref_counter
  /\ UNCHANGED <<adaptor_priv, threadsToWait, barrierWaiters,
                 close_requested, unrecoverable, selfPipe, pending, queue,
                 qLock, qWaiters, appPc, compPc, cur, initRet, hasCb,
                 invoked, enqLog, delivered, queuedAtClose, destroyed>>
  /\ UNCHANGED joinVars
  /\ UNCHANGED ioVars
  /\ UNCHANGED allocVars

\* if (fds[0].revents & POLLIN) flush the pipe
do_io_drain ==
  /\ ioPc = "drain"
  /\ selfPipe' = IF pollin THEN Flush(selfPipe) ELSE selfPipe
  /\ ioPc' = "process"
  /\ UNCHANGED ref_counter
  /\ UNCHANGED <<adaptor_priv, threadsToWait, barrierWaiters,
                 close_requested, unrecoverable, pollin, pending, queue,
                 qLock, qWaiters, appPc, compPc, cur, initRet, hasCb,
                 invoked, enqLog, delivered, queuedAtClose, destroyed>>
  /\ UNCHANGED joinVars
  /\ drainLeft' = IF pollin THEN Flush(selfPipe) ELSE drainLeft
  /\ UNCHANGED <<procRc, ioTerminal, lateEnq, unserved>>
  /\ UNCHANGED allocVars

\* zookeeper_process: a reply to the oldest pending request has arrived;
\* its completion is appended to the queue under the queue's mutex and the
\* condition variable is signalled
zookeeper_process_enqueue ==
  /\ ioPc = "process"
  /\ pending # <<>>
  /\ qLock = "none"
  /\ queue' = Append(queue, Head(pending))
  /\ enqLog' = Append(enqLog, Head(pending))
  /\ pending' = Tail(pending)
  /\ qWaiters' = {}
  /\ UNCHANGED ref_counter
  /\ UNCHANGED <<adaptor_priv, threadsToWait, barrierWaiters,
                 close_requested, unrecoverable, selfPipe, pollin, qLock,
                 appPc, ioPc, compPc, cur, initRet, hasCb, invoked,
                 delivered, queuedAtClose, destroyed>>
  /\ UNCHANGED joinVars
  /\ lateEnq' = (lateEnq \/ compPc \in {"epilog", "done"})
  /\ UNCHANGED <<procRc, ioTerminal, unserved, drainLeft>>
  /\ UNCHANGED allocVars

\* zookeeper_process: the session is lost for good (expired, auth failed);
\* every pending request is completed with an error code
zookeeper_process_expire ==
  /\ ioPc = "process"
  /\ ~unrecoverable
  /\ qLock = "none"
  /\ unrecoverable' = TRUE
  /\ queue' = queue \o pending
  /\ enqLog' = enqLog \o pending
  /\ pending' = <<>>
  /\ qWaiters' = {}
  /\ UNCHANGED ref_counter
  /\ UNCHANGED <<adaptor_priv, threadsToWait, barrierWaiters,
                 close_requested, selfPipe, pollin, qLock, appPc, ioPc,
                 compPc, cur, initRet, hasCb, invoked, delivered,
                 queuedAtClose, destroyed>>
  /\ UNCHANGED joinVars
  /\ lateEnq' = (lateEnq \/ (pending # <<>> /\ compPc \in {"epilog", "done"}))
  /\ UNCHANGED <<procRc, ioTerminal, unserved, drainLeft>>
  /\ UNCHANGED allocVars

\* what zookeeper_process may return: the closing status is reported only
\* for a handle whose close was requested
ProcessResults == {"Ok", "Closing"}
EngineReturns(rc) == rc = "Closing" => close_requested

\* do_io that goes round again whatever is_unrecoverable answers
do_io_processed_NoBreak(rc) ==
  /\ ioPc = "process"
  /\ EngineReturns(rc)
  /\ procRc' = rc
  /\ ioTerminal' = (ioTerminal \/ rc = "Closing" \/ unrecoverable)
  /\ ioPc' = "loop"
  /\ UNCHANGED ref_counter
  /\ UNCHANGED <<adaptor_priv, threadsToWait, barrierWaiters,
                 close_requested, unrecoverable, selfPipe, pollin, pending,
                 queue, qLock, qWaiters, appPc, compPc, cur, initRet,
                 hasCb, invoked, enqLog, delivered, queuedAtClose,
                 destroyed>>
  /\ UNCHANGED joinVars
  /\ UNCHANGED <<lateEnq, unserved, drainLeft>>
  /\ UNCHANGED allocVars

\* rc = zookeeper_process(zh, interest) returns; rc is not looked at;
\* if (is_unrecoverable(zh)) break; }
do_io_processed(rc) ==
  /\ ioPc = "process"
  /\ EngineReturns(rc)
  /\ procRc' = rc
  /\ ioTerminal' = (ioTerminal \/ rc = "Closing" \/ unrecoverable)
  /\ ioPc' = IF unrecoverable THEN "epilog" ELSE "loop"
  /\ UNCHANGED ref_counter
  /\ UNCHANGED <<adaptor_priv, threadsToWait, barrierWaiters,
                 close_requested, unrecoverable, selfPipe, pollin, pending,
                 queue, qLock, qWaiters, appPc, compPc, cur, initRet,
                 hasCb, invoked, enqLog, delivered, queuedAtClose,
                 destroyed>>
  /\ UNCHANGED joinVars
  /\ UNCHANGED <<lateEnq, unserved, drainLeft>>
  /\ UNCHANGED allocVars

\* ---- the Completion thread ----
\* while (!zh->close_requested) {
do_completion_loop ==
  /\ compPc = "loop"
  /\ compPc' = IF close_requested THEN "epilog" ELSE "lock"
  /\ UNCHANGED ref_counter
  /\ UNCHANGED <<adaptor_priv, threadsToWait, barrierWaiters,
                 close_requested, unrecoverable, selfPipe, pollin, pending,
                 queue, qLock, qWaiters, appPc, ioPc, cur, initRet, hasCb,
                 invoked, enqLog, delivered, queuedAtClose, destroyed>>
  /\ UNCHANGED joinVars
  /\ UNCHANGED ioVars
  /\ UNCHANGED allocVars

\* boost::unique_lock<boost::mutex> lock(*(zh->completions_to_process.lock));
\* also the lock taken again when cond.wait returns
do_completion_lock ==
  /\ \/ compPc = "lock"
     \/ compPc = "wait" /\ "comp" \notin qWaiters
  /\ qLock = "none"
  /\ qLock' = "comp"
  /\ compPc' = "test"
  /\ UNCHANGED ref_counter
  /\ UNCHANGED <<adaptor_priv, threadsToWait, barrierWaiters,
                 close_requested, unrecoverable, selfPipe, pollin, pending,
                 queue, qWaiters, appPc, ioPc, cur, initRet, hasCb,
                 invoked, enqLog, delivered, queuedAtClose, destroyed>>
  /\ UNCHANGED joinVars
  /\ UNCHANGED ioVars
  /\ UNCHANGED allocVars

\* do_completion without lock.unlock() before process_completions
do_completion_test_NoUnlock ==
  /\ compPc = "test"
  /\ qLock' = IF queue = <<>> /\ ~close_requested THEN "none" ELSE "comp"
  /\ IF queue = <<>> /\ ~close_requested
     THEN qWaiters' = qWaiters \cup {"comp"} /\ compPc' = "wait"
     ELSE qWaiters' = qWaiters /\ compPc' = "drain"
  /\ UNCHANGED ref_counter
  /\ UNCHANGED <<adaptor_priv, threadsToWait, barrierWaiters,
                 close_requested, unrecoverable, selfPipe, pollin, pending,
                 queue, appPc, ioPc, cur, initRet, hasCb, invoked, enqLog,
                 delivered, queuedAtClose, destroyed>>
  /\ UNCHANGED joinVars
  /\ UNCHANGED ioVars
  /\ UNCHANGED allocVars

\* while (!head && !close_requested) cond.wait(lock);  lock.unlock();
do_completion_test ==
  /\ compPc = "test"
  /\ qLock' = "none"
  /\ IF queue = <<>> /\ ~close_requested
     THEN qWaiters' = qWaiters \cup {"comp"} /\ compPc' = "wait"
     ELSE qWaiters' = qWaiters /\ compPc' = "drain"
  /\ UNCHANGED ref_counter
  /\ UNCHANGED <<adaptor_priv, threadsToWait, barrierWaiters,
                 close_requested, unrecoverable, selfPipe, pollin, pending,
                 queue, appPc, ioPc, cur, initRet, hasCb, invoked, enqLog,
                 delivered, queuedAtClose, destroyed>>
  /\ UNCHANGED joinVars
  /\ UNCHANGED ioVars
  /\ UNCHANGED allocVars

\* process_completions: the next completion is taken off the queue under
\* the queue's mutex; with none left the call returns
process_completions_dequeue ==
  /\ compPc = "drain"
  /\ qLock = "none"
  /\ IF queue = <<>>
     THEN /\ compPc' = "loop"
          /\ UNCHANGED <<queue, cur>>
     ELSE /\ cur' = Head(queue)
          /\ queue' = Tail(queue)
          /\ compPc' = "call"
  /\ UNCHANGED ref_counter
  /\ UNCHANGED <<adaptor_priv, threadsToWait, barrierWaiters,
                 close_requested, unrecoverable, selfPipe, pollin, pending,
                 qLock, qWaiters, appPc, ioPc, initRet, hasCb, invoked,
                 enqLog, delivered, queuedAtClose, destroyed>>
  /\ UNCHANGED joinVars
  /\ UNCHANGED ioVars
  /\ UNCHANGED allocVars

\* a completion adapter with its null test inverted
completion_adapter_Inverted ==
  /\ compPc = "call"
  /\ IF ~hasCb[cur]
     THEN /\ invoked' = [invoked EXCEPT ![cur] = @ + 1]
          /\ delivered' = Append(delivered, cur)
     ELSE UNCHANGED <<invoked, delivered>>
  /\ cur' = 0
  /\ compPc' = "drain"
  /\ UNCHANGED ref_counter
  /\ UNCHANGED <<adaptor_priv, threadsToWait, barrierWaiters,
                 close_requested, unrecoverable, selfPipe, pollin, pending,
                 queue, qLock, qWaiters, appPc, ioPc, initRet, hasCb,
                 enqLog, queuedAtClose, destroyed>>
  /\ UNCHANGED joinVars
  /\ UNCHANGED ioVars
  /\ UNCHANGED allocVars

\* process_completions calls the completion the request was submitted
\* with: the adapter invokes the callback, if (callback), and deletes the
\* context
completion_adapter ==
  /\ compPc = "call"
  /\ IF hasCb[cur]
     THEN /\ invoked' = [invoked EXCEPT ![cur] = @ + 1]
          /\ delivered' = Append(delivered, cur)
     ELSE UNCHANGED <<invoked, delivered>>
  /\ cur' = 0
  /\ compPc' = "drain"
  /\ UNCHANGED ref_counter
  /\ UNCHANGED <<adaptor_priv, threadsToWait, barrierWaiters,
                 close_requested, unrecoverable, selfPipe, pollin, pending,
                 queue, qLock, qWaiters, appPc, ioPc, initRet, hasCb,
                 enqLog, queuedAtClose, destroyed>>
  /\ UNCHANGED joinVars
  /\ UNCHANGED ioVars
  /\ UNCHANGED allocVars

\* the callback that closed the handle returns to its adapter, which
\* deletes the context
callback_returns ==
  /\ compPc = "cb_ret"
  /\ invoked' = [invoked EXCEPT ![cur] = @ + 1]
  /\ delivered' = Append(delivered, cur)
  /\ cur' = 0
  /\ compPc' = "drain"
  /\ UNCHANGED ref_counter
  /\ UNCHANGED <<adaptor_priv, threadsToWait, barrierWaiters,
                 close_requested, unrecoverable, selfPipe, pollin, pending,
                 queue, qLock, qWaiters, appPc, ioPc, initRet, hasCb,
                 enqLog, queuedAtClose, destroyed>>
  /\ UNCHANGED joinVars
  /\ UNCHANGED ioVars
  /\ UNCHANGED allocVars

otherThanPipe == <<buildVars, watchVars, complVars, refHist, syncVars,
                   callVars, xidVars, critVars, blockVars, moreVars>>

\* the steps of adaptor_finish and of the zookeeper_close around it
finishStep(th) ==
  \/ adaptor_finish_prolog(th)
  \/ adaptor_finish_wakeup(th)
  \/ adaptor_finish_join_io(th)
  \/ adaptor_finish_notify(th)
  \/ adaptor_finish_join_completion(th)
  \/ adaptor_finish_epilog(th)
  \/ zookeeper_close_epilog(th)

\* what each thread does once it is inside the adaptor's code.  A request,
\* a close and the arrival of a reply are not among these steps: the user
\* and the server may never make them.
appStep ==
  /\ \/ \E o \in InitOutcomes : adaptor_init(o)
     \/ start_io
     \/ start_completion
     \/ wait_for_others
     \/ start_threads_epilog
     \/ finishStep("app")
  /\ UNCHANGED otherThanPipe

ioStep ==
  /\ \/ worker_prolog("io")
     \/ notify_thread_ready("io")
     \/ notify_thread_ready_woken("io")
     \/ do_io_loop
     \/ do_io_poll
     \/ do_io_drain
     \/ \E rc \in ProcessResults : do_io_processed(rc)
     \/ worker_epilog("io")
     \/ finishStep("io")
  /\ UNCHANGED otherThanPipe

compStep ==
  /\ \/ worker_prolog("comp")
     \/ notify_thread_ready("comp")
     \/ notify_thread_ready_woken("comp")
     \/ do_completion_loop
     \/ do_completion_lock
     \/ do_completion_test
     \/ process_completions_dequeue
     \/ completion_adapter
     \/ callback_returns
     \/ worker_epilog("comp")
     \/ finishStep("comp")
  /\ UNCHANGED otherThanPipe

Next ==
  \/ /\ \E o \in InitOutcomes : adaptor_init(o)
     /\ UNCHANGED otherThanPipe
  \/ /\ start_io
     /\ UNCHANGED otherThanPipe
  \/ /\ start_completion
     /\ UNCHANGED otherThanPipe
  \/ /\ wait_for_others
     /\ UNCHANGED otherThanPipe
  \/ /\ start_threads_epilog
     /\ UNCHANGED otherThanPipe
  \/ /\ \E cb \in BOOLEAN, ok \in BOOLEAN : submit(cb, ok)
     /\ UNCHANGED otherThanPipe
  \/ /\ \E th \in Closers : zookeeper_close(th)
     /\ UNCHANGED otherThanPipe
  \/ /\ \E th \in Closers : adaptor_finish_prolog(th)
     /\ UNCHANGED otherThanPipe
  \/ /\ \E th \in Closers : adaptor_finish_wakeup(th)
     /\ UNCHANGED otherThanPipe
  \/ /\ \E th \in Closers : adaptor_finish_join_io(th)
     /\ UNCHANGED otherThanPipe
  \/ /\ \E th \in Closers : adaptor_finish_notify(th)
     /\ UNCHANGED otherThanPipe
  \/ /\ \E th \in Closers : adaptor_finish_join_completion(th)
     /\ UNCHANGED otherThanPipe
  \/ /\ \E th \in Closers : adaptor_finish_epilog(th)
     /\ UNCHANGED otherThanPipe
  \/ /\ \E th \in Closers : zookeeper_close_epilog(th)
     /\ UNCHANGED otherThanPipe
  \/ /\ \E th \in {"io", "comp"} : worker_prolog(th)
     /\ UNCHANGED otherThanPipe
  \/ /\ \E th \in {"io", "comp"} : notify_thread_ready(th)
     /\ UNCHANGED otherThanPipe
  \/ /\ \E th \in {"io", "comp"} : notify_thread_ready_woken(th)
     /\ UNCHANGED otherThanPipe
  \/ /\ \E th \in {"io", "comp"} : worker_epilog(th)
     /\ UNCHANGED otherThanPipe
  \/ /\ do_io_loop
     /\ UNCHANGED otherThanPipe
  \/ /\ do_io_poll
     /\ UNCHANGED otherThanPipe
  \/ /\ do_io_drain
     /\ UNCHANGED otherThanPipe
  \/ /\ zookeeper_process_enqueue
     /\ UNCHANGED otherThanPipe
  \/ /\ zookeeper_process_expire
     /\ UNCHANGED otherThanPipe
  \/ /\ \E rc \in ProcessResults : do_io_processed(rc)
     /\ UNCHANGED otherThanPipe
  \/ /\ do_completion_loop
     /\ UNCHANGED otherThanPipe
  \/ /\ do_completion_lock
     /\ UNCHANGED otherThanPipe
  \/ /\ do_completion_test
     /\ UNCHANGED otherThanPipe
  \/ /\ process_completions_dequeue
     /\ UNCHANGED otherThanPipe
  \/ /\ completion_adapter
     /\ UNCHANGED otherThanPipe
  \/ /\ callback_returns
     /\ UNCHANGED otherThanPipe

----------------------------------------------------------------------------
(***************************************************************************)
(* Request calls                                                           *)
(*                                                                         *)
(* Every request call of ZooKeeperImpl allocates its contexts first and    *)
(* then hands them to the engine's zoo_a* call, whose result it returns.   *)
(* The engine is not part of this layer: a submission it refuses leaves    *)
(* nothing registered and invokes nothing; one it accepts is completed     *)
(* once, and its watch, if any, is dispatched.                             *)
(***************************************************************************)
CallNames == {"create", "remove", "exists", "get", "set", "getChildren",
              "getAcl", "setAcl", "sync", "addAuthInfo"}
\* the calls that take a Watch
TakesWatch(call) == call \in {"exists", "get", "getChildren"}
\* what a zoo_a* call returns at once
SubmitResults == {"Ok", "BadArguments", "InvalidState"}

CallInit == calls = <<>>

\* The watcher function handed to the engine: exists and getChildren pass
\* `watcher`, which is set only with a watch; get passes &watchCallback
\* whether or not there is a watch.
WatcherPassed(call, watch) ==
  IF call = "get" THEN TRUE ELSE TakesWatch(call) /\ watch

\* create, remove, exists, get, set, getChildren, getAcl, setAcl, sync,
\* addAuthInfo: `if (cb.get()) context = new CompletionContext(cb, path)`,
\* `if (watch.get()) watchContext = new WatchContext(this, watch, true)`,
\* then `return (ReturnCode)zoo_a...(handle_, ..., completion, context)`.
asyncCall(call, cb, watch, rc) ==
  /\ Len(calls) < MaxCalls
  /\ watch => TakesWatch(call)
  /\ calls' = Append(calls,
       [call |-> call, rc |-> rc,
        completionContext |-> IF cb THEN "live" ELSE "none",
        watchContext |-> IF watch THEN "live" ELSE "none",
        watcher |-> WatcherPassed(call, watch),
        nullDispatch |-> FALSE])

\* The completion of an accepted call arrives: its adapter runs and ends
\* with `delete context`.
callCompleted(k) ==
  /\ calls[k].rc = "Ok"
  /\ calls[k].completionContext = "live"
  /\ calls' = [calls EXCEPT ![k].completionContext = "freed"]

\* The watch of an accepted call fires: watchCallback runs and ends with
\* `if (context->deleteAfterCallback_) delete context`.
callWatchFired(k) ==
  /\ calls[k].rc = "Ok"
  /\ calls[k].watchContext = "live"
  /\ calls' = [calls EXCEPT ![k].watchContext = "freed"]

\* The engine registers a watch whenever the watcher function it was given
\* is not null and calls it with the context it was given.  An accepted
\* call that passed the function and no context: the node event arrives,
\* watchCallback is entered with watcherCtx == NULL (assert(watcherCtx)).
callWatchFired_null(k) ==
  /\ calls[k].rc = "Ok"
  /\ calls[k].watcher
  /\ calls[k].watchContext = "none"
  /\ ~calls[k].nullDispatch
  /\ calls' = [calls EXCEPT ![k].nullDispatch = TRUE]

otherThanCall == <<buildVars, watchVars, complVars, refVars, syncVars,
                   pipeVars, xidVars, critVars, blockVars, moreVars>>

NextCall ==
  \/ /\ \E call \in CallNames, cb \in BOOLEAN, watch \in BOOLEAN,
           rc \in SubmitResults : asyncCall(call, cb, watch, rc)
     /\ UNCHANGED otherThanCall
  \/ /\ \E k \in DOMAIN calls : callCompleted(k)
     /\ UNCHANGED otherThanCall
  \/ /\ \E k \in DOMAIN calls : callWatchFired(k)
     /\ UNCHANGED otherThanCall
  \/ /\ \E k \in DOMAIN calls : callWatchFired_null(k)
     /\ UNCHANGED otherThanCall

----------------------------------------------------------------------------
(***************************************************************************)
(* get_xid                                                                 *)
(*                                                                         *)
(*   static int32_t xid = -1;                                              *)
(*   if (xid == -1) { xid = time(0); }                                     *)
(*   return fetch_and_add(&xid, 1);                                        *)
(*                                                                         *)
(* The function is a constructor: it has run once, single-threaded, when   *)
(* a run starts, so xid is past StartTime, the time(0) of that first call. *)
(* A run starts after any number of earlier calls: right after the first,  *)
(* at the top of the int32_t range, and two calls short of -1.             *)
(***************************************************************************)
XidCallers == 1..XidThreads
\* time(0) of the first call, in seconds since the epoch
StartTime == 1700000000
\* time(0) of a later call: the clock has not gone back
LaterTimes == {StartTime, StartTime + 1}
XidStarts == {StartTime + 1, Int32Max, -2}

\* v was returned by one of the calls made before the run began: those
\* returned StartTime, StartTime + 1, ... up to the value before xEarlier,
\* through the wrap from Int32Max to Int32Min when xEarlier is below
\* StartTime.
ReturnedEarlier(v) ==
  IF xEarlier > StartTime
  THEN StartTime <= v /\ v < xEarlier
  ELSE StartTime <= v \/ v < xEarlier

\* v is greater than u modulo 2^32: (v - u) mod 2^32 is in 1 .. 2^31 - 1
WrapGreater(v, u) ==
  IF (u >= 0) = (v >= 0) THEN v > u
  ELSE IF u < 0 THEN v <= Int32Max + u
  ELSE v < u + Int32Min

XidInit ==
  /\ xid \in XidStarts
  /\ xEarlier = xid
  /\ xPc = [t \in XidCallers |-> "idle"]
  /\ xCalls = [t \in XidCallers |-> 0]
  /\ xBefore = [t \in XidCallers |-> {}]
  /\ xReturned = {}
  /\ xFresh = TRUE
  /\ xMonotone = TRUE
  /\ xLast = Add32(xid, -1)
  /\ xPlain = TRUE

\* get_xid: if (xid == -1)
get_xid_test(t) ==
  /\ xPc[t] = "idle"
  /\ xCalls[t] < XidCalls
  /\ xPc' = [xPc EXCEPT ![t] = IF xid = -1 THEN "store" ELSE "add"]
  /\ xBefore' = [xBefore EXCEPT ![t] = xReturned]
  /\ UNCHANGED <<xid, xCalls, xReturned, xEarlier, xFresh, xMonotone, xLast,
                 xPlain>>

\* get_xid: xid = time(0);
get_xid_store(t, now) ==
  /\ xPc[t] = "store"
  /\ xid' = now
  /\ xPc' = [xPc EXCEPT ![t] = "add"]
  /\ UNCHANGED <<xCalls, xBefore, xReturned, xEarlier, xFresh, xMonotone,
                 xLast, xPlain>>

\* get_xid: return fetch_and_add(&xid, 1);
get_xid(t) ==
  LET fa == fetch_and_add(xid, 1)
      v == fa.result
  IN
  /\ xPc[t] = "add"
  /\ xid' = fa.operand
  /\ xPc' = [xPc EXCEPT ![t] = "idle"]
  /\ xCalls' = [xCalls EXCEPT ![t] = @ + 1]
  /\ xReturned' = xReturned \cup {v}
  /\ xFresh' = (xFresh /\ v \notin xReturned /\ ~ReturnedEarlier(v))
  /\ xMonotone' = (xMonotone /\ \A u \in xBefore[t] : WrapGreater(v, u))
  /\ xLast' = v
  /\ xPlain' = (xPlain /\ v = Add32(xLast, 1))
  /\ UNCHANGED <<xBefore, xEarlier>>

otherThanXid == <<buildVars, watchVars, complVars, refVars, syncVars,
                  pipeVars, callVars, critVars, blockVars, moreVars>>

NextXid ==
  \/ /\ \E t \in XidCallers : get_xid_test(t)
     /\ UNCHANGED otherThanXid
  \/ /\ \E t \in XidCallers, now \in LaterTimes : get_xid_store(t, now)
     /\ UNCHANGED otherThanXid
  \/ /\ \E t \in XidCallers : get_xid(t)
     /\ UNCHANGED otherThanXid

----------------------------------------------------------------------------
(***************************************************************************)
(* The blocking exists                                                     *)
(*                                                                         *)
(* exists(path, watch, stat) submits the asynchronous exists with an       *)
(* ExistsCallback, returns the submission's result if it is not Ok, and    *)
(* otherwise waits in waitForCompleted until processResult has run.  The   *)
(* call is made from user code: by the application, or by a completion     *)
(* callback, which runs on the Completion thread.                          *)
(***************************************************************************)
NoExCall == [th |-> "none", req |-> 0, st |-> "none", rc |-> "none",
             deliveredAt |-> 0]

BlockInit == exCall = NoExCall

BlockingCallers == {"app", "comp"}

\* completed_ taken for set from the start
ExCompleted_Always == TRUE

\* ExistsCallback::completed_: processResult has run for the call's request
ExCompleted == exCall.req # 0 /\ invoked[exCall.req] > 0

\* exists(path, watch, stat): rc = exists(path, watch, callback);
\* if (rc != Ok) return rc;  and otherwise the caller is in
\* callback->waitForCompleted()
exists_blocking(th, ok) ==
  /\ exCall.st = "none"
  /\ InUserCode(th)
  /\ destroyed = 0
  /\ Len(hasCb) <= reqBudget
  /\ unrecoverable => ~ok
  /\ IF ok
     THEN /\ pending' = Append(pending, Len(hasCb) + 1)
          /\ hasCb' = Append(hasCb, TRUE)
          /\ invoked' = Append(invoked, 0)
          /\ IF ~close_requested THEN wakeup_io_thread
                                 ELSE selfPipe' = selfPipe
          /\ SetPc(th, "ex_wait")
          /\ exCall' = [th |-> th, req |-> Len(hasCb) + 1, st |-> "waiting",
                        rc |-> "Ok", deliveredAt |-> Len(delivered)]
     ELSE /\ UNCHANGED <<pending, hasCb, invoked, selfPipe, appPc, ioPc,
                         compPc>>
          /\ exCall' = [th |-> th, req |-> 0, st |-> "returned",
                        rc |-> IF unrecoverable THEN "InvalidState"
                                                ELSE "BadArguments",
                        deliveredAt |-> Len(delivered)]
  /\ unserved' = (unserved \/ (ok /\ ~close_requested))
  /\ UNCHANGED ref_counter
  /\ UNCHANGED <<adaptor_priv, threadsToWait, barrierWaiters,
                 close_requested, unrecoverable, pollin, queue, qLock,
                 qWaiters, cur, initRet, enqLog, delivered, queuedAtClose,
                 destroyed>>
  /\ UNCHANGED joinVars
  /\ UNCHANGED <<procRc, ioTerminal, lateEnq, drainLeft>>
  /\ UNCHANGED allocVars

\* waitForCompleted returns: completed_ is set; exists returns
\* callback->rc_ to the user code that called it
exists_blocking_return(th) ==
  /\ Pc(th) = "ex_wait"
  /\ exCall.th = th
  /\ exCall.st = "waiting"
  /\ ExCompleted
  /\ SetPc(th, IF th = "app" THEN "ready" ELSE "call")
  /\ exCall' = [exCall EXCEPT !.st = "returned"]
  /\ UNCHANGED ref_counter
  /\ UNCHANGED <<adaptor_priv, threadsToWait, barrierWaiters,
                 close_requested, unrecoverable, selfPipe, pollin, pending,
                 queue, qLock, qWaiters, cur, initRet, hasCb, invoked,
                 enqLog, delivered, queuedAtClose, destroyed>>
  /\ UNCHANGED joinVars
  /\ UNCHANGED ioVars
  /\ UNCHANGED allocVars

otherThanBlock == <<buildVars, watchVars, complVars, refHist, syncVars,
                    callVars, xidVars, critVars, moreVars>>

\* the thread pair with user code that makes the blocking call
NextBlock ==
  \/ Next
  \/ /\ \E th \in BlockingCallers, ok \in BOOLEAN : exists_blocking(th, ok)
     /\ UNCHANGED otherThanBlock
  \/ /\ \E th \in BlockingCallers : exists_blocking_return(th)
     /\ UNCHANGED otherThanBlock

----------------------------------------------------------------------------
(***************************************************************************)
(* Critical section                                                        *)
(*                                                                         *)
(* enter_critical and leave_critical are called in pairs by the engine,    *)
(* around its changes of the handle's state inside zookeeper_interest,     *)
(* zookeeper_process and the request calls.  The workers suspend in        *)
(* do_io's poll and in do_completion's cond.wait, which are outside those  *)
(* calls.  adaptor_priv is the one of the thread pair.                     *)
(***************************************************************************)
CritThreads == {"app", "io", "comp"}

CritInit ==
  /\ zh_lock = "none"
  /\ kPc = [t \in CritThreads |-> "out"]
  /\ kRounds = [t \in CritThreads |-> 0]

\* enter_critical that does not take the mutex
enter_critical_NoLock(t) ==
  /\ kPc[t] = "out"
  /\ kRounds[t] < MaxSections
  /\ kPc' = [kPc EXCEPT ![t] = "in"]
  /\ UNCHANGED <<zh_lock, kRounds>>

\* enter_critical: if (adaptor) adaptor->zh_lock.lock();  the call
enter_critical(t) ==
  /\ kPc[t] = "out"
  /\ kRounds[t] < MaxSections
  /\ kPc' = [kPc EXCEPT ![t] = IF adaptor_priv THEN "enter" ELSE "in"]
  /\ UNCHANGED <<zh_lock, kRounds>>

\* zh_lock.lock() returns: the mutex was free and is now the caller's
enter_critical_locked(t) ==
  /\ kPc[t] = "enter"
  /\ zh_lock = "none"
  /\ zh_lock' = t
  /\ kPc' = [kPc EXCEPT ![t] = "in"]
  /\ UNCHANGED kRounds

\* leave_critical: if (adaptor) adaptor->zh_lock.unlock();
leave_critical(t) ==
  /\ kPc[t] = "in"
  /\ zh_lock' = IF adaptor_priv THEN "none" ELSE zh_lock
  /\ kPc' = [kPc EXCEPT ![t] = "out"]
  /\ kRounds' = [kRounds EXCEPT ![t] = @ + 1]

\* a worker, back from the engine's call, blocks in poll (do_io) or in
\* cond.wait (do_completion)
worker_suspends(t) ==
  /\ t \in {"io", "comp"}
  /\ adaptor_priv
  /\ kPc[t] = "out"
  /\ kPc' = [kPc EXCEPT ![t] = "suspended"]
  /\ UNCHANGED <<zh_lock, kRounds>>

\* poll or cond.wait returns
worker_resumes(t) ==
  /\ kPc[t] = "suspended"
  /\ kPc' = [kPc EXCEPT ![t] = "out"]
  /\ UNCHANGED <<zh_lock, kRounds>>

otherThanCrit == <<buildVars, watchVars, complVars, refVars, syncVars,
                   pipeVars, callVars, xidVars, blockVars, moreVars>>

NextCrit ==
  \/ /\ \E t \in CritThreads : enter_critical(t)
     /\ UNCHANGED otherThanCrit
  \/ /\ \E t \in CritThreads : enter_critical_locked(t)
     /\ UNCHANGED otherThanCrit
  \/ /\ \E t \in CritThreads : leave_critical(t)
     /\ UNCHANGED otherThanCrit
  \/ /\ \E t \in CritThreads : worker_suspends(t)
     /\ UNCHANGED otherThanCrit
  \/ /\ \E t \in CritThreads : worker_resumes(t)
     /\ UNCHANGED otherThanCrit

----------------------------------------------------------------------------
(***************************************************************************)
(* One iteration of do_io: what zookeeper_process is given                 *)
(*                                                                         *)
(* zookeeper_interest writes fd and interest through its out-parameters;   *)
(* the engine is not part of this layer, so with fd = -1 the interest it   *)
(* leaves is any set of flags.                                             *)
(***************************************************************************)
InterestFlags == {"ZOOKEEPER_READ", "ZOOKEEPER_WRITE"}
PollFlags == {"POLLIN", "POLLOUT", "POLLHUP"}
SessionSocket == 7
Fds == {-1, SessionSocket}

PollInit ==
  /\ pPc = "interest"
  /\ pFd = -1
  /\ pInterest = {}
  /\ pRevents = {}
  /\ pPassed = <<>>
  /\ pIter = 0

\* fds[1].events: POLLIN for ZOOKEEPER_READ, POLLOUT for ZOOKEEPER_WRITE
Events(interest) ==
  (IF "ZOOKEEPER_READ" \in interest THEN {"POLLIN"} ELSE {})
    \cup (IF "ZOOKEEPER_WRITE" \in interest THEN {"POLLOUT"} ELSE {})

\* the flags of lines 323-324 with the hang-up left out
Readiness_NoHup(revents) ==
  (IF "POLLIN" \in revents THEN {"ZOOKEEPER_READ"} ELSE {})
    \cup (IF "POLLOUT" \in revents THEN {"ZOOKEEPER_WRITE"} ELSE {})

\* interest = (revents & POLLIN) ? ZOOKEEPER_READ : 0;
\* interest |= ((revents & POLLOUT) || (revents & POLLHUP)) ?
\*             ZOOKEEPER_WRITE : 0;
Readiness(revents) ==
  (IF "POLLIN" \in revents THEN {"ZOOKEEPER_READ"} ELSE {})
    \cup (IF "POLLOUT" \in revents \/ "POLLHUP" \in revents
          THEN {"ZOOKEEPER_WRITE"} ELSE {})

\* zookeeper_interest(zh, &fd, &interest, &tv)
do_io_interest(fd, interest) ==
  /\ pPc = "interest"
  /\ pIter < MaxPolls
  /\ pFd' = fd
  /\ pInterest' = interest
  /\ pPc' = "poll"
  /\ UNCHANGED <<pRevents, pPassed, pIter>>

\* poll(fds, maxfd, timeout): with a socket fds[1] is polled and its
\* revents are among the events asked for and POLLHUP; without one maxfd
\* is 1 and fds[1] is not looked at
do_io_poll_socket(revents) ==
  /\ pPc = "poll"
  /\ IF pFd # -1
     THEN /\ revents \subseteq (Events(pInterest) \cup {"POLLHUP"})
          /\ pRevents' = revents
     ELSE /\ revents = {}
          /\ pRevents' = pRevents
  /\ pPc' = "flags"
  /\ UNCHANGED <<pFd, pInterest, pPassed, pIter>>

\* if (fd != -1) { interest = ...; interest |= ...; }
do_io_flags ==
  /\ pPc = "flags"
  /\ pInterest' = IF pFd # -1 THEN Readiness(pRevents) ELSE pInterest
  /\ pPc' = "process"
  /\ UNCHANGED <<pFd, pRevents, pPassed, pIter>>

\* rc = zookeeper_process(zh, interest); and back to the top of the loop
do_io_process ==
  /\ pPc = "process"
  /\ pPassed' = <<pInterest>>
  /\ pIter' = pIter + 1
  /\ pPc' = "interest"
  /\ UNCHANGED <<pFd, pInterest, pRevents>>

otherThanPoll == <<buildVars, watchVars, complVars, refVars, syncVars,
                   pipeVars, callVars, xidVars, critVars, blockVars,
                   lifeVars, sendVars, statVars, opVars>>

NextPoll ==
  \/ /\ \E fd \in Fds, interest \in SUBSET InterestFlags :
          do_io_interest(fd, interest)
     /\ UNCHANGED otherThanPoll
  \/ /\ \E revents \in SUBSET PollFlags : do_io_poll_socket(revents)
     /\ UNCHANGED otherThanPoll
  \/ /\ do_io_flags
     /\ UNCHANGED otherThanPoll
  \/ /\ do_io_process
     /\ UNCHANGED otherThanPoll

(***************************************************************************)
(* The life of a ZooKeeperImpl: init, close and the destructor             *)
(*                                                                         *)
(* The calls are made one after another.  zookeeper_init and               *)
(* zookeeper_close belong to the engine: zookeeper_init returns a new      *)
(* handle or NULL.  inited_ is the variable of the watch dispatcher.       *)
(***************************************************************************)
NoClose == [made |-> FALSE]

LifeInit ==
  /\ handle_ = 0
  /\ alive = TRUE
  /\ zCloses = <<>>
  /\ zFails = 0
  /\ zCalls = 0
  /\ lastClose = NoClose

\* ZooKeeperImpl::init on an object that is not initialised:
\* handle_ = zookeeper_init(...); if (handle_ == NULL) return Error;
\* inited_ = true; return Ok;
init_handle(ok) ==
  /\ alive
  /\ ~inited_
  /\ IF ok
     THEN /\ Len(zCloses) < MaxInits
          /\ handle_' = Len(zCloses) + 1
          /\ zCloses' = Append(zCloses, 0)
          /\ inited_' = TRUE
          /\ UNCHANGED zFails
     ELSE /\ zFails < MaxInits
          /\ handle_' = 0
          /\ zFails' = zFails + 1
          /\ UNCHANGED <<zCloses, inited_>>
  /\ UNCHANGED <<alive, zCalls, lastClose>>

\* zookeeper_close(handle_) as close() calls it
engine_close(h) ==
  zCloses' = [k \in DOMAIN zCloses |->
                IF k = h THEN zCloses[k] + 1 ELSE zCloses[k]]

\* the body of close() with `inited_ = false` left out
close_body_NoClear ==
  IF ~inited_
  THEN /\ lastClose' = [made |-> TRUE, inited |-> FALSE, rc |-> "Error",
                        handle |-> handle_]
       /\ UNCHANGED <<inited_, handle_, zCloses>>
  ELSE /\ inited_' = inited_
       /\ engine_close(handle_)
       /\ handle_' = handle_
       /\ lastClose' = [made |-> TRUE, inited |-> TRUE, rc |-> "Ok",
                        handle |-> 0]

\* ZooKeeperImpl::close: if (!inited_) return Error; inited_ = false;
\* zookeeper_close(handle_); handle_ = NULL; return Ok;
close_body ==
  IF ~inited_
  THEN /\ lastClose' = [made |-> TRUE, inited |-> FALSE, rc |-> "Error",
                        handle |-> handle_]
       /\ UNCHANGED <<inited_, handle_, zCloses>>
  ELSE /\ inited_' = FALSE
       /\ engine_close(handle_)
       /\ handle_' = 0
       /\ lastClose' = [made |-> TRUE, inited |-> TRUE, rc |-> "Ok",
                        handle |-> 0]

\* close() called by the user
close ==
  /\ alive
  /\ zCalls < MaxCloses
  /\ close_body
  /\ zCalls' = zCalls + 1
  /\ UNCHANGED <<alive, zFails>>

\* ~ZooKeeperImpl: close();
destructor ==
  /\ alive
  /\ close_body
  /\ alive' = FALSE
  /\ zCalls' = zCalls + 1
  /\ UNCHANGED zFails

otherThanLife == <<buildVars, state_, stateHist, wctx, watchers, lastEv,
                   aborted, complVars, refVars, syncVars, pipeVars,
                   callVars, xidVars, critVars, blockVars, pollVars,
                   sendVars, statVars, opVars>>

NextLife ==
  \/ /\ \E ok \in BOOLEAN : init_handle(ok)
     /\ UNCHANGED otherThanLife
  \/ /\ close
     /\ UNCHANGED otherThanLife
  \/ /\ destructor
     /\ UNCHANGED otherThanLife

(***************************************************************************)
(* adaptor_send_queue                                                      *)
(*                                                                         *)
(* The engine calls adaptor_send_queue at the end of every request call,   *)
(* on the caller's thread; zookeeper_close sets close_requested on         *)
(* another.  close_requested is read without a lock.  The pipe is          *)
(* non-blocking: a write to a full pipe writes nothing.                    *)
(***************************************************************************)
Senders == {"app", "comp"}
FlushResults == {"ZOK", "ZCONNECTIONLOSS"}
NoSend == [made |-> FALSE]

SendInit ==
  /\ aPc = [t \in Senders |-> "idle"]
  /\ aCalls = [t \in Senders |-> 0]
  /\ aLast = [t \in Senders |-> NoSend]
  /\ lateWrite = FALSE

\* what adaptor_send_queue neither reads nor writes
sendFrame == <<adaptor_priv, threadsToWait, barrierWaiters, unrecoverable,
               pollin, pending, queue, qLock, qWaiters, appPc, ioPc, compPc,
               cur, initRet, hasCb, invoked, enqLog, delivered,
               queuedAtClose, destroyed, joinVars, ioVars, allocVars,
               ref_counter>>

\* adaptor_send_queue: if (!zh->close_requested)
adaptor_send_queue_test(t) ==
  /\ aPc[t] = "idle"
  /\ aCalls[t] < MaxSends
  /\ aPc' = [aPc EXCEPT ![t] = IF close_requested THEN "flush" ELSE "wakeup"]
  /\ UNCHANGED <<aCalls, aLast, lateWrite, selfPipe, close_requested>>

\* return wakeup_io_thread(zh): write(self_pipe[1], &c, 1) == 1 ? ZOK :
\* ZSYSTEMERROR
adaptor_send_queue_wakeup(t) ==
  LET written == selfPipe < PipeCapacity IN
  /\ aPc[t] = "wakeup"
  /\ selfPipe' = IF written THEN selfPipe + 1 ELSE selfPipe
  /\ lateWrite' = (lateWrite \/ (written /\ close_requested))
  /\ aLast' = [aLast EXCEPT ![t] =
                 [made |-> TRUE, sawClose |-> FALSE, wrote |-> written,
                  flushed |-> FALSE,
                  rc |-> IF written THEN "ZOK" ELSE "ZSYSTEMERROR",
                  flushRc |-> "none"]]
  /\ aCalls' = [aCalls EXCEPT ![t] = @ + 1]
  /\ aPc' = [aPc EXCEPT ![t] = "idle"]
  /\ UNCHANGED close_requested

\* return flush_send_queue(zh, timeout), on the calling thread
adaptor_send_queue_flush(t, rc) ==
  /\ aPc[t] = "flush"
  /\ aLast' = [aLast EXCEPT ![t] =
                 [made |-> TRUE, sawClose |-> TRUE, wrote |-> FALSE,
                  flushed |-> TRUE, rc |-> rc, flushRc |-> rc]]
  /\ aCalls' = [aCalls EXCEPT ![t] = @ + 1]
  /\ aPc' = [aPc EXCEPT ![t] = "idle"]
  /\ UNCHANGED <<lateWrite, selfPipe, close_requested>>

\* zookeeper_close on another thread: zh->close_requested = 1
close_is_requested ==
  /\ ~close_requested
  /\ close_requested' = TRUE
  /\ UNCHANGED <<aPc, aCalls, aLast, lateWrite, selfPipe>>

otherThanSend == <<buildVars, watchVars, complVars, refHist, syncVars,
                   callVars, xidVars, critVars, blockVars, pollVars,
                   lifeVars, statVars, opVars, sendFrame>>

NextSend ==
  \/ /\ \E t \in Senders : adaptor_send_queue_test(t)
     /\ UNCHANGED otherThanSend
  \/ /\ \E t \in Senders : adaptor_send_queue_wakeup(t)
     /\ UNCHANGED otherThanSend
  \/ /\ \E t \in Senders, rc \in FlushResults :
          adaptor_send_queue_flush(t, rc)
     /\ UNCHANGED otherThanSend
  \/ /\ close_is_requested
     /\ UNCHANGED otherThanSend

(***************************************************************************)
(* Op and its subtypes Create, Remove, SetData and Check: a constructor    *)
(* stores its arguments in the members its initialiser list names, a       *)
(* getter returns a member.  A std::string member the initialiser list     *)
(* does not name is default-constructed: the empty string.                 *)
(***************************************************************************)
Paths == {"/a", "/b"}
Datas == {"", "x", "y"}
Acls == {<<>>, <<"world:anyone">>}
CreateModes == {"Persistent", "Ephemeral"}
Versions == {-1, 0, 1}
OpCode == [Create |-> "OpCode::Create", Remove |-> "OpCode::Remove",
           SetData |-> "OpCode::SetData", Check |-> "OpCode::Check"]
NoOp == [class |-> "none"]
NoGot == [getter |-> "none"]

OpInit ==
  /\ op = NoOp
  /\ opArgs = NoOp
  /\ opGot = NoGot

\* Op::Op(type, path)
Op(class, type, path) == [class |-> class, type_ |-> type, path_ |-> path]

Op_Create(path, data, acl, mode) ==
  /\ op' = Op("Create", OpCode.Create, path) @@
              [data_ |-> data, acl_ |-> acl, mode_ |-> mode]
  /\ opArgs' = [class |-> "Create", path |-> path, data |-> data,
                acl |-> acl, mode |-> mode]
  /\ opGot' = NoGot

Op_Remove(path, version) ==
  /\ op' = Op("Remove", OpCode.Remove, path) @@
              [version_ |-> version]
  /\ opArgs' = [class |-> "Remove", path |-> path, version |-> version]
  /\ opGot' = NoGot

\* What the initialiser list of Op::SetData would be with data_(data) in it.
Op_SetData_StoresData(path, data, version) ==
  /\ op' = Op("SetData", OpCode.SetData, path) @@
              [data_ |-> data, version_ |-> version]
  /\ opArgs' = [class |-> "SetData", path |-> path, data |-> data,
                version |-> version]
  /\ opGot' = NoGot

\* The initialiser list is Op(OpCode::SetData, path), version_(version):
\* data_ is default-constructed.
Op_SetData(path, data, version) ==
  /\ op' = Op("SetData", OpCode.SetData, path) @@
              [data_ |-> "", version_ |-> version]
  /\ opArgs' = [class |-> "SetData", path |-> path, data |-> data,
                version |-> version]
  /\ opGot' = NoGot

Op_Check(path, version) ==
  /\ op' = Op("Check", OpCode.Check, path) @@
              [version_ |-> version]
  /\ opArgs' = [class |-> "Check", path |-> path, version |-> version]
  /\ opGot' = NoGot

Got(getter, value) == [getter |-> getter, value |-> value]

getType ==
  /\ op.class # "none"
  /\ opGot' = Got("getType", op.type_)
  /\ UNCHANGED <<op, opArgs>>

getPath ==
  /\ op.class # "none"
  /\ opGot' = Got("getPath", op.path_)
  /\ UNCHANGED <<op, opArgs>>

getData ==
  /\ op.class \in {"Create", "SetData"}
  /\ opGot' = Got("getData", op.data_)
  /\ UNCHANGED <<op, opArgs>>

getAcl ==
  /\ op.class = "Create"
  /\ opGot' = Got("getAcl", op.acl_)
  /\ UNCHANGED <<op, opArgs>>

getMode ==
  /\ op.class = "Create"
  /\ opGot' = Got("getMode", op.mode_)
  /\ UNCHANGED <<op, opArgs>>

getVersion ==
  /\ op.class \in {"Remove", "SetData", "Check"}
  /\ opGot' = Got("getVersion", op.version_)
  /\ UNCHANGED <<op, opArgs>>

otherThanOp == <<buildVars, watchVars, complVars, refVars, syncVars,
                 pipeVars, callVars, xidVars, critVars, blockVars,
                 pollVars, lifeVars, sendVars, statVars>>

NextOp ==
  \/ /\ \E path \in Paths, data \in Datas, acl \in Acls, mode \in CreateModes :
          Op_Create(path, data, acl, mode)
     /\ UNCHANGED otherThanOp
  \/ /\ \E path \in Paths, version \in Versions : Op_Remove(path, version)
     /\ UNCHANGED otherThanOp
  \/ /\ \E path \in Paths, data \in Datas, version \in Versions :
          Op_SetData(path, data, version)
     /\ UNCHANGED otherThanOp
  \/ /\ \E path \in Paths, version \in Versions : Op_Check(path, version)
     /\ UNCHANGED otherThanOp
  \/ /\ getType
     /\ UNCHANGED otherThanOp
  \/ /\ getPath
     /\ UNCHANGED otherThanOp
  \/ /\ getData
     /\ UNCHANGED otherThanOp
  \/ /\ getAcl
     /\ UNCHANGED otherThanOp
  \/ /\ getMode
     /\ UNCHANGED otherThanOp
  \/ /\ getVersion
     /\ UNCHANGED otherThanOp

\* The blocking exists has not been called: no callback holds a pointer and
\* the caller's Stat is what the caller put there.
StatInit ==
  /\ stat_ = "null"
  /\ callerStat = "before"

MoreInit == PollInit /\ LifeInit /\ SendInit /\ StatInit /\ OpInit

----------------------------------------------------------------------------
(***************************************************************************)
(* Specifications                                                          *)
(***************************************************************************)
InitWatch ==
  /\ WatchInit /\ ComplInit /\ RefInit /\ SyncInit /\ PipeInit
  /\ CallInit /\ XidInit /\ CritInit /\ BlockInit /\ MoreInit /\ xid = StartTime + 1
  /\ ndebug \in BOOLEAN
  /\ reqBudget = MaxReq
SpecWatch == InitWatch /\ [][NextWatch]_vars

\* The dispatcher given node events that carry any state value.
InitWire ==
  /\ WatchInit /\ ComplInit /\ RefInit /\ SyncInit /\ PipeInit
  /\ CallInit /\ XidInit /\ CritInit /\ BlockInit /\ MoreInit /\ xid = StartTime + 1
  /\ ndebug \in BOOLEAN
  /\ reqBudget = MaxReq
SpecWire == InitWire /\ [][NextWire]_vars

InitCompl ==
  /\ WatchInit /\ ComplInit /\ RefInit /\ SyncInit /\ PipeInit
  /\ CallInit /\ XidInit /\ CritInit /\ BlockInit /\ MoreInit /\ xid = StartTime + 1
  /\ ndebug \in BOOLEAN
  /\ reqBudget = MaxReq
SpecCompl == InitCompl /\ [][NextCompl]_vars

Init ==
  /\ WatchInit /\ ComplInit /\ RefInit /\ SyncInit /\ PipeInit
  /\ CallInit /\ XidInit /\ CritInit /\ BlockInit /\ MoreInit /\ xid = StartTime + 1
  /\ ndebug = FALSE
  /\ reqBudget = MaxReq
Spec == Init /\ [][Next]_vars

\* The thread pair, with user code that makes the blocking exists besides
\* its asynchronous requests.
InitBlock ==
  /\ WatchInit /\ ComplInit /\ RefInit /\ SyncInit /\ PipeInit
  /\ CallInit /\ XidInit /\ CritInit /\ BlockInit /\ MoreInit /\ xid = StartTime + 1
  /\ ndebug = FALSE
  /\ reqBudget = MaxLiveReq
SpecBlock == InitBlock /\ [][NextBlock]_vars

InitRef ==
  /\ WatchInit /\ ComplInit /\ RefInit /\ SyncInit /\ PipeInit
  /\ CallInit /\ XidInit /\ CritInit /\ BlockInit /\ MoreInit /\ xid = StartTime + 1
  /\ ndebug = FALSE
  /\ reqBudget = MaxReq
SpecRef == InitRef /\ [][NextRef]_vars

\* The critical section, on a handle with and without the thread pair.
InitCrit ==
  /\ WatchInit /\ ComplInit /\ RefInit /\ SyncInit
  /\ CallInit /\ XidInit /\ CritInit /\ BlockInit /\ MoreInit /\ xid = StartTime + 1
  /\ ndebug = FALSE
  /\ reqBudget = MaxReq
  /\ adaptor_priv \in BOOLEAN
  /\ PipeRest
SpecCrit == InitCrit /\ [][NextCrit]_vars

\* One iteration of do_io after another, for the flags it passes on.
InitPoll ==
  /\ WatchInit /\ ComplInit /\ RefInit /\ SyncInit /\ PipeInit
  /\ CallInit /\ XidInit /\ CritInit /\ BlockInit /\ MoreInit
  /\ xid = StartTime + 1
  /\ ndebug = FALSE
  /\ reqBudget = MaxReq
SpecPoll == InitPoll /\ [][NextPoll]_vars

\* adaptor_send_queue on a handle with its adaptor state, which another
\* thread may close.  Of the handle only the pipe and close_requested are
\* followed.
InitSend ==
  /\ WatchInit /\ ComplInit /\ RefInit /\ SyncInit
  /\ adaptor_priv = TRUE /\ PipeRest
  /\ CallInit /\ XidInit /\ CritInit /\ BlockInit /\ MoreInit
  /\ xid = StartTime + 1
  /\ ndebug = FALSE
  /\ reqBudget = MaxReq
SpecSend == InitSend /\ [][NextSend]_vars

\* Ops constructed from every combination of arguments, and their getters.
InitOp ==
  /\ WatchInit /\ ComplInit /\ RefInit /\ SyncInit /\ PipeInit
  /\ CallInit /\ XidInit /\ CritInit /\ BlockInit /\ MoreInit
  /\ xid = StartTime + 1
  /\ ndebug = FALSE
  /\ reqBudget = MaxReq
SpecOp == InitOp /\ [][NextOp]_vars

\* init, close and the destructor of one ZooKeeperImpl.
InitLife ==
  /\ WatchInit /\ ComplInit /\ RefInit /\ SyncInit /\ PipeInit
  /\ CallInit /\ XidInit /\ CritInit /\ BlockInit /\ MoreInit
  /\ xid = StartTime + 1
  /\ ndebug = FALSE
  /\ reqBudget = MaxReq
SpecLife == InitLife /\ [][NextLife]_vars

\* The thread pair with its scheduling: a thread that can take a step of
\* the adaptor's code takes it in the end (callbacks and engine calls
\* return, poll() has a timeout).
InitLive ==
  /\ WatchInit /\ ComplInit /\ RefInit /\ SyncInit /\ PipeInit
  /\ CallInit /\ XidInit /\ CritInit /\ BlockInit /\ MoreInit /\ xid = StartTime + 1
  /\ ndebug = FALSE
  /\ reqBudget = MaxLiveReq
SpecLive == InitLive /\ [][Next]_vars
            /\ WF_vars(appStep) /\ WF_vars(ioStep) /\ WF_vars(compStep)

\* A thread that can take a step is scheduled in the end: the caller
\* blocked in waitForCompleted and the one in wait_sync_completion run
\* whenever they are runnable.
InitSync ==
  /\ WatchInit /\ ComplInit /\ RefInit /\ SyncInit /\ PipeInit
  /\ CallInit /\ XidInit /\ CritInit /\ BlockInit /\ MoreInit /\ xid = StartTime + 1
  /\ ndebug = FALSE
  /\ reqBudget = MaxReq
SpecSync == InitSync /\ [][NextSync]_vars
            /\ WF_vars(callerStep) /\ WF_vars(waiterStep)

InitCall ==
  /\ WatchInit /\ ComplInit /\ RefInit /\ SyncInit /\ PipeInit
  /\ CallInit /\ XidInit /\ CritInit /\ BlockInit /\ MoreInit /\ xid = StartTime + 1
  /\ ndebug = FALSE
  /\ reqBudget = MaxReq
SpecCall == InitCall /\ [][NextCall]_vars

InitXid ==
  /\ WatchInit /\ ComplInit /\ RefInit /\ SyncInit /\ PipeInit
  /\ CallInit /\ XidInit /\ CritInit /\ BlockInit /\ MoreInit
  /\ ndebug = FALSE
  /\ reqBudget = MaxReq
SpecXid == InitXid /\ [][NextXid]_vars

----------------------------------------------------------------------------
(***************************************************************************)
(* Claims about the thread pair, the queue and shutdown                    *)
(***************************************************************************)
RECURSIVE WithCallback(_)
\* the completions of q whose request was submitted with a callback
WithCallback(q) ==
  IF q = <<>> THEN <<>>
  ELSE IF hasCb[Head(q)] THEN <<Head(q)>> \o WithCallback(Tail(q))
       ELSE WithCallback(Tail(q))

CompletionExited == compPc \in {"epilog", "done"}
InHand == IF cur = 0 THEN <<>> ELSE <<cur>>
\* how many of the enqueued completions process_completions is done with
Processed == Len(enqLog) - Len(queue) - Len(InHand)

\* C1: every request that was accepted with a callback has its callback
\* invoked exactly once: never twice, and once the session is closed and
\* the handle given up, once.
C1_CallbackExactlyOnce ==
  /\ \A r \in DOMAIN invoked : invoked[r] <= 1
  /\ (appPc = "closed") =>
       \A r \in DOMAIN invoked : hasCb[r] => invoked[r] = 1

\* C2: callbacks are invoked in the order the completions were enqueued,
\* none skipped and none merged: what was enqueued is, in this order, what
\* has been processed, the completion in hand and what is still queued,
\* and the callbacks invoked are those of the processed ones, in order.
C2_FifoDelivery ==
  /\ Processed >= 0
  /\ enqLog = SubSeq(enqLog, 1, Processed) \o InHand \o queue
  /\ delivered = WithCallback(SubSeq(enqLog, 1, Processed))

\* C2's case: two completions with callbacks were enqueued and both were
\* delivered, the first enqueued first.
C2_Witness ==
  /\ Len(delivered) = 2
  /\ delivered = enqLog
  /\ cur = 0

\* C3: adaptor_init (wait_for_others in start_threads) has returned only
\* if both workers have decremented threadsToWait, which is then 0.
C3_InitReturnsAfterBarrier ==
  (appPc \notin {"start", "init_failed", "st_io", "st_comp", "wfo", "wfo_wait"})
    => /\ threadsToWait = 0
       /\ ioPc \notin {"none", "t_start", "nr"}
       /\ compPc \notin {"none", "t_start", "nr"}

\* C3's case: adaptor_init has returned 0 after the initiating thread had
\* to wait, and a worker is still on its way out of notify_thread_ready.
C3_Witness ==
  /\ appPc = "ready"
  /\ initRet = <<0>>
  /\ threadsToWait = 0
  /\ compPc = "nr_wait"

\* blocks of adaptor state allocated by adaptor_init and not freed by it
AdaptorStateAllocated == initAlloc.callocs - initAlloc.frees

\* C28: when adaptor_init has returned -1 no thread was started,
\* adaptor_priv is unset and no adaptor state is left allocated; when it
\* has returned 0 adaptor_priv was set and both threads were started (and
\* stay so until the handle is destroyed).
C28_InitAllOrNothing ==
  /\ initRet = <<-1>> =>
       /\ ~adaptor_priv
       /\ ioThread = "none" /\ compThread = "none"
       /\ ioPc = "none" /\ compPc = "none"
       /\ AdaptorStateAllocated = 0
  /\ (initRet = <<0>> /\ destroyed = 0) =>
       /\ adaptor_priv
       /\ ioThread # "none" /\ compThread # "none"
       /\ AdaptorStateAllocated = 1

\* C28's case: calloc succeeded, pipe() failed, and adaptor_init has
\* returned -1.
C28_Witness ==
  /\ initRet = <<-1>>
  /\ initAlloc.callocs = 1
  /\ appPc = "init_failed"

\* calloc failed
C28_WitnessCalloc ==
  /\ initRet = <<-1>>
  /\ initAlloc.callocs = 0

\* adaptor_init has returned 0
C28_WitnessStarted ==
  /\ initRet = <<0>>
  /\ appPc = "ready"

\* C4: the Completion thread does not leave its loop while a completion
\* that was queued when close was requested is still queued or its
\* callback not yet invoked.
C4_QueuedAtCloseDelivered ==
  CompletionExited =>
    \A r \in queuedAtClose :
      /\ r \notin Range(queue)
      /\ hasCb[r] => invoked[r] = 1

\* adaptor_finish has returned on the thread th, zookeeper_close not yet
FinishReturned(th) == Pc(th) = "c_epilog"

\* C16: adaptor_finish never joins the thread that runs it.  No join() is
\* called by a thread on itself; once adaptor_finish on the I/O thread is
\* past its first branch the I/O thread is detached, and when it returns
\* it has joined the Completion thread, which has terminated; likewise
\* with the two workers exchanged.
C16_NoSelfJoin ==
  /\ \A c \in joinCalls : c[1] # c[2]
  /\ ioPc \in {"f_comp", "f_joincomp", "f_epilog", "c_epilog"}
       => ioThread = "detached"
  /\ FinishReturned("io")
       => /\ <<"io", "comp">> \in joinCalls
          /\ compThread = "joined"
          /\ compPc = "done"
  /\ compPc \in {"f_epilog", "c_epilog"}
       => /\ compThread = "detached"
          /\ <<"comp", "io">> \in joinCalls
          /\ ioThread = "joined"
          /\ ioPc = "done"

\* C16's case: a callback closed the handle; adaptor_finish ran on the
\* Completion thread, detached it, joined the I/O thread and returned.
C16_Witness ==
  /\ FinishReturned("comp")
  /\ compThread = "detached"
  /\ ioThread = "joined"

\* the same on the I/O thread
C16_WitnessIo ==
  /\ FinishReturned("io")
  /\ ioThread = "detached"
  /\ compThread = "joined"

\* the worker th is between its api_prolog and its api_epilog
HoldsReference(th) == WorkerPc(th) \notin {"none", "t_start", "done"}

\* C18: while a worker is between its api_prolog and its api_epilog the
\* reference counter is at least 1 and the handle is not destroyed,
\* whether adaptor_finish joins or has detached that worker; the handle
\* is destroyed at most once, with the counter at zero and both workers
\* terminated.
C18_DestroyedAfterWorkers ==
  /\ \A th \in {"io", "comp"} :
       HoldsReference(th) => ref_counter >= 1 /\ destroyed = 0
  /\ destroyed <= 1
  /\ destroyed = 1 => /\ ref_counter = 0
                      /\ ioPc = "done"
                      /\ compPc = "done"

\* C18's case: a callback closed the handle, adaptor_finish detached the
\* Completion thread and zookeeper_close has returned; the detached
\* thread has left its loop and holds the last reference.
C18_Witness ==
  /\ compThread = "detached"
  /\ compPc = "epilog"
  /\ ioPc = "done"
  /\ ref_counter = 1
  /\ destroyed = 0

\* the handle destroyed by the detached worker's api_epilog
C18_WitnessDestroyed ==
  /\ compThread = "detached"
  /\ destroyed = 1

\* start_threads is between its api_prolog and its api_epilog
InStartThreads ==
  appPc \in {"st_io", "st_comp", "wfo", "wfo_wait", "st_epilog"}
\* th is between the api_prolog and the api_epilog of adaptor_finish
InAdaptorFinish(th) ==
  Pc(th) \in {"f_io", "f_joinio", "f_comp", "f_joincomp", "f_epilog"}
\* th is inside zookeeper_close, which holds a reference of its own
InZookeeperClose(th) == Pc(th) = "f_prolog" \/ InAdaptorFinish(th)
                          \/ Pc(th) = "c_epilog"
\* the references taken by api_prolog and not yet given back
OpenReferences ==
  (IF InStartThreads THEN 1 ELSE 0)
  + (IF HoldsReference("io") THEN 1 ELSE 0)
  + (IF HoldsReference("comp") THEN 1 ELSE 0)
  + Cardinality({th \in Closers : InZookeeperClose(th)})
  + Cardinality({th \in Closers : InAdaptorFinish(th)})

\* C32: the api_prolog and api_epilog calls of start_threads, do_io,
\* do_completion and adaptor_finish are balanced on every path: the
\* counter is the number of calls that are between the two; and from
\* start_threads' api_prolog until the last worker's api_epilog the counter
\* is not zero.
C32_ReferencesBalanced ==
  /\ ref_counter = OpenReferences
  /\ (appPc \notin {"start", "init_failed"}
        /\ ~(ioPc = "done" /\ compPc = "done")) => ref_counter >= 1

\* C32's case: start_threads has given its reference back, the I/O thread
\* has given its own back, and the Completion thread, which closed the
\* handle from a callback, holds three: its own, zookeeper_close's and
\* adaptor_finish's.
C32_Witness ==
  /\ appPc = "ready"
  /\ ioPc = "done"
  /\ compPc = "f_epilog"
  /\ ref_counter = 3

\* start_threads holds the only reference: no worker has taken its own
C32_WitnessStart ==
  /\ appPc = "wfo_wait"
  /\ ioPc = "t_start" /\ compPc = "t_start"
  /\ ref_counter = 1

\* C17: once the application thread has requested close and entered
\* adaptor_finish, adaptor_finish returns in the end, and when it has
\* returned both workers have left their loops and terminated.
C17_FinishReturns ==
  /\ [](FinishReturned("app") => ioPc = "done" /\ compPc = "done")
  /\ (appPc = "f_prolog") ~> FinishReturned("app")

\* C17's case: adaptor_finish has returned on the application thread
\* after joining both workers.
C17_Witness ==
  /\ FinishReturned("app")
  /\ close_requested
  /\ ioThread = "joined"
  /\ compThread = "joined"

\* the worker th has decremented threadsToWait
Decremented(th) == WorkerPc(th) \notin {"none", "t_start", "nr"}
\* the worker th has returned from notify_thread_ready
PastBarrier(th) == WorkerPc(th) \notin {"none", "t_start", "nr", "nr_wait"}
\* wait_for_others has returned on the initiating thread
InitiatorPast ==
  appPc \notin {"start", "init_failed", "st_io", "st_comp", "wfo", "wfo_wait"}

\* C20: a worker is past notify_thread_ready only if both workers have
\* decremented threadsToWait, whichever started first; and once
\* adaptor_init has set the barrier up, both workers and the initiating
\* call get past it in the end.
C20_BarrierPassedTogether ==
  /\ [](\A th \in {"io", "comp"} :
          PastBarrier(th) => /\ Decremented("io")
                             /\ Decremented("comp")
                             /\ threadsToWait = 0)
  /\ (appPc = "st_io")
       ~> (PastBarrier("io") /\ PastBarrier("comp") /\ InitiatorPast)

\* C39: threadsToWait is always between 0 and 2: start_threads sets it to
\* 2, each worker decrements it exactly once (it is 2 less the number of
\* workers that have been through the decrement), no other step changes
\* it, and once it has come down to 0 it stays 0.
C39_CounterBetween0And2 ==
  /\ [](threadsToWait \in 0..2)
  /\ [](appPc \notin {"start", "init_failed"} =>
          threadsToWait =
            2 - Cardinality({th \in {"io", "comp"} : Decremented(th)}))
  /\ [][threadsToWait' # threadsToWait =>
          \/ appPc = "start" /\ threadsToWait' = 2
          \/ /\ threadsToWait' = threadsToWait - 1
             /\ \E th \in {"io", "comp"} :
                   WorkerPc(th) = "nr" /\ Decremented(th)']_vars
  /\ [][(appPc # "start" /\ threadsToWait = 0) => threadsToWait' = 0]_vars

\* C39's case: both workers have decremented the counter, which is 0, and
\* the handle has since been closed and its threads joined.
C39_Witness ==
  /\ threadsToWait = 0
  /\ Decremented("io")
  /\ Decremented("comp")
  /\ joinCalls # {}

\* C20's case: the Completion thread came first, has decremented the
\* counter and waits for the I/O thread, which has not; the initiating
\* call waits too.
C20_Witness ==
  /\ threadsToWait = 1
  /\ compPc = "nr_wait"
  /\ "comp" \in barrierWaiters
  /\ ioPc \in {"t_start", "nr"}
  /\ appPc = "wfo_wait"

\* the same with the I/O thread first
C20_WitnessIoFirst ==
  /\ threadsToWait = 1
  /\ ioPc = "nr_wait"
  /\ compPc \in {"t_start", "nr"}

C21_WitnessUnrecoverable ==
  /\ ioTerminal
  /\ unrecoverable
  /\ ~close_requested
  /\ ioPc = "epilog"

\* C22: the I/O thread enqueues no completion after the Completion
\* thread has made its last process_completions pass and left its loop.
C22_NoEnqueueAfterLastPass == ~lateEnq

\* C23: the Completion thread owns the queue's mutex only at the test of
\* the queue's head and of close_requested (cond.wait gives it up while
\* the thread is blocked); it does not own it during process_completions,
\* in a callback or in anything a callback calls.
C23_NoLockInCallback ==
  /\ qLock = "comp" => compPc = "test"
  /\ compPc \in {"drain", "call", "cb_ret", "wait"} => qLock # "comp"

\* C23's case: a callback is running on the Completion thread, another
\* completion is queued behind it, and the mutex is free.
C23_Witness ==
  /\ compPc = "call"
  /\ hasCb[cur]
  /\ queue # <<>>
  /\ qLock = "none"

\* C24: a wakeup is not lost.  If a byte was written since the I/O thread
\* last evaluated its loop condition and the thread is in poll, the byte
\* is in the pipe, so poll returns for it; and a flush leaves the pipe
\* empty however many bytes had gathered.
C24_WakeupNotLost ==
  /\ (unserved /\ ioPc = "poll") => selfPipe > 0
  /\ drainLeft = 0

\* C24's case: the flush has emptied a pipe that held more bytes than one
\* read takes; a wakeup written after it waits in the pipe for the next
\* poll.
C24_Witness ==
  /\ ioPc = "poll"
  /\ unserved
  /\ selfPipe = 1
  /\ Len(hasCb) = 2

\* more bytes than one read takes are in the pipe when poll returns
C24_WitnessGathered ==
  /\ ioPc = "drain"
  /\ pollin
  /\ selfPipe > PipeChunk

\* C30, as stated: a blocking exists made on the Completion thread never
\* returns.
C30_NeverReturns == ~(exCall.th = "comp" /\ exCall.st = "returned")

\* C30, amended: a blocking exists made on the Completion thread whose
\* submission the engine accepted never returns: the thread stays in
\* waitForCompleted, processResult is not run for the request, and no
\* completion is delivered after the call was made.
C30_AcceptedNeverReturns ==
  (exCall.th = "comp" /\ exCall.rc = "Ok") =>
    /\ exCall.st = "waiting"
    /\ compPc = "ex_wait"
    /\ ~ExCompleted
    /\ Len(delivered) = exCall.deliveredAt

\* C30's case: a callback made the blocking call, the I/O thread has
\* enqueued its completion, and the Completion thread, which alone
\* dequeues, is waiting for it; the application, closing the handle, is
\* in adaptor_finish waiting to join the Completion thread.
C30_Witness ==
  /\ exCall.th = "comp"
  /\ exCall.st = "waiting"
  /\ compPc = "ex_wait"
  /\ queue = <<exCall.req>>
  /\ appPc = "f_joincomp"

\* the same call made by the application returns once the Completion
\* thread has delivered its completion
C30_WitnessApp ==
  /\ exCall.th = "app"
  /\ exCall.rc = "Ok"
  /\ exCall.st = "returned"

----------------------------------------------------------------------------
C31_WithSocket ==
  (pPc = "interest" /\ pPassed # <<>> /\ pFd # -1) =>
    pPassed[1] = Readiness(pRevents)

\* a hung-up socket that was polled for reading only is passed on as WRITE
C31_WitnessHup ==
  /\ pPc = "interest"
  /\ pFd = SessionSocket
  /\ pRevents = {"POLLHUP"}
  /\ pPassed = <<{"ZOOKEEPER_WRITE"}>>
  /\ pIter = 2

----------------------------------------------------------------------------
(***************************************************************************)
(* Claims about adaptor_send_queue                                         *)
(***************************************************************************)
\* C34: adaptor_send_queue never writes to the wakeup channel once close
\* has been requested; before that it only wakes the I/O thread and
\* returns ZOK if the byte was written and ZSYSTEMERROR otherwise; after
\* it, it flushes the send queue on the calling thread and returns the
\* flush's result.
C34_NoWakeupAfterClose ==
  /\ ~lateWrite
  /\ \A t \in Senders :
       aLast[t].made =>
         IF aLast[t].sawClose
         THEN /\ ~aLast[t].wrote /\ aLast[t].flushed
              /\ aLast[t].rc = aLast[t].flushRc
         ELSE /\ ~aLast[t].flushed
              /\ aLast[t].rc = (IF aLast[t].wrote THEN "ZOK"
                                                  ELSE "ZSYSTEMERROR")

\* what holds of every call: it acts on the value of close_requested it
\* read
C34_ActsOnWhatItRead ==
  \A t \in Senders :
    aLast[t].made =>
      IF aLast[t].sawClose
      THEN /\ ~aLast[t].wrote /\ aLast[t].flushed
           /\ aLast[t].rc = aLast[t].flushRc
      ELSE /\ ~aLast[t].flushed
           /\ aLast[t].rc = (IF aLast[t].wrote THEN "ZOK"
                                               ELSE "ZSYSTEMERROR")

\* a call that found close requested has flushed on its own thread, and a
\* wakeup has failed on a full pipe
C34_WitnessFlush ==
  /\ aLast["app"].made /\ aLast["app"].sawClose
  /\ aLast["app"].rc = "ZCONNECTIONLOSS"
  /\ aLast["comp"].made /\ aLast["comp"].rc = "ZSYSTEMERROR"

----------------------------------------------------------------------------
----------------------------------------------------------------------------
(***************************************************************************)
(* Claims about Op and its subtypes                                        *)
(***************************************************************************)
\* What the constructor of the Op was given for the member a getter reads;
\* for getType, the op code of the subtype.
Given(getter) ==
  CASE getter = "getType" -> OpCode[opArgs.class]
    [] getter = "getPath" -> opArgs.path
    [] getter = "getData" -> opArgs.data
    [] getter = "getAcl" -> opArgs.acl
    [] getter = "getMode" -> opArgs.mode
    [] getter = "getVersion" -> opArgs.version

\* C36: for every Op subtype each getter returns the value passed to the
\* constructor: getType the subtype's op code, getPath the path, getData the
\* data, getAcl the ACL list, getMode the create mode, getVersion the
\* version.
C36_GettersReturnArguments ==
  opGot.getter # "none" => opGot.value = Given(opGot.getter)

\* What holds: every getter but SetData's getData returns the argument, and
\* SetData's getData returns the empty string.
C36_AllButSetDataGetData ==
  opGot.getter # "none" =>
    IF op.class = "SetData" /\ opGot.getter = "getData"
    THEN opGot.value = ""
    ELSE opGot.value = Given(opGot.getter)

\* getData was called on a SetData constructed with data that is not empty.
C36_WitnessSetData ==
  /\ op.class = "SetData"
  /\ opArgs.data = "x"
  /\ opGot.getter = "getData"

(***************************************************************************)
(* Claims about the critical section                                       *)
(***************************************************************************)
InCritical == {t \in CritThreads : kPc[t] = "in"}

C25_WitnessNoAdaptor ==
  /\ ~adaptor_priv
  /\ Cardinality(InCritical) = 2

----------------------------------------------------------------------------
(***************************************************************************)
(* Claims about the watch dispatcher and the handle's State                *)
(***************************************************************************)
Terminal == {"Expired", "SessionAuthFailed"}

\* C7: after the dispatcher has handled a Session event whose state is one
\* of Connecting, Connected, Expired, SessionAuthFailed, getState() returns
\* that state; after a Session event with any other state value the
\* dispatcher has taken the fatal-error path and the state is what it was
\* before the event.
C7_SessionEventSetsState ==
  lastEv.type = "Session" =>
    IF lastEv.state \in {"Connecting", "Connected", "Expired", "SessionAuthFailed"}
    THEN getState = lastEv.state /\ ~lastEv.fatal
    ELSE lastEv.fatal /\ getState = lastEv.prev /\ (~ndebug => aborted)

\* C7's case: a handle that went Connecting then Connected now receives a
\* Session event with state 9999, and stays Connected.
C7_Witness ==
  /\ Len(stateHist) = 3
  /\ stateHist[2] = "Connecting"
  /\ stateHist[3] = "Connected"
  /\ lastEv.type = "Session"
  /\ lastEv.state = "Unknown9999"
  /\ lastEv.fatal
  /\ getState = "Connected"

\* C26: when the dispatcher hands a Session event with a recognised state to
\* the watch object, getState() inside process(Session, state, path)
\* already returns that state.
C26_StateSetBeforeProcess ==
  (/\ lastEv.type = "Session"
   /\ lastEv.state \in RecognisedStates
   /\ lastEv.processed)
    => lastEv.seen = lastEv.state

\* C26's case: a watch object was handed a Session event whose state is
\* not the one the handle had before the dispatch.
C26_Witness ==
  /\ lastEv.type = "Session"
  /\ lastEv.state = "Connected"
  /\ lastEv.processed
  /\ lastEv.prev = "Connecting"
  /\ lastEv.seen = "Connected"

\* C38: an event whose type is not Session never changes the handle's
\* state, whatever state value it carries: when the last event dispatched
\* is a node event, getState() inside the watch object and after the
\* dispatch returns what it returned before the dispatch (lastEv.prev), no
\* state was set, and no value of the carried state is an error.
C38_NodeEventsKeepState ==
  (lastEv.type \notin {"none", "Session"}) =>
    /\ lastEv.seen = lastEv.prev
    /\ getState = lastEv.prev
    /\ stateHist[Len(stateHist)] = lastEv.prev
    /\ ~lastEv.fatal

\* C38's case: on a Connected handle a watch object was handed a
\* NodeDeleted event that carries Expired; the handle is still Connected.
C38_Witness ==
  /\ lastEv.type = "NodeDeleted"
  /\ lastEv.state = "Expired"
  /\ lastEv.processed
  /\ lastEv.prev = "Connected"
  /\ getState = "Connected"

\* C8: the handle starts in Connecting, and once its state is Expired or
\* SessionAuthFailed it never has another state afterwards.
C8_StateMachine ==
  /\ stateHist[1] = "Connecting"
  /\ \A i, j \in DOMAIN stateHist :
        (i < j /\ stateHist[i] \in Terminal) => stateHist[j] = stateHist[i]

\* C12: once the dispatcher has invoked the watch object of a per-call
\* context (one made by exists/get/getChildren, deleteAfterCallback true),
\* the context is freed, whatever the type of the event; the context of the
\* global watcher made by init is never freed by the dispatcher.
C12_OneShotFreedGlobalKept ==
  /\ \A c \in DOMAIN wctx :
        c = 1 => (~wctx[c].freed /\ wctx[c].frees = 0)
  /\ (lastEv.type # "none" /\ lastEv.processed /\ lastEv.ctx > 1)
        => wctx[lastEv.ctx].freed

\* C12's case: the global watcher has handled a Session event and is still
\* allocated, and a per-call context is freed after a node event.
C12_Witness ==
  /\ Len(stateHist) >= 2
  /\ Len(wctx) >= 2
  /\ ~wctx[1].freed
  /\ lastEv.type = "NodeDeleted"
  /\ lastEv.ctx = 2
  /\ lastEv.processed
  /\ wctx[2].freed
  /\ wctx[2].frees = 1

\* C13: the dispatcher is never run on a WatchContext that an earlier
\* dispatch freed, and no WatchContext is freed twice.
C13_NoUseAfterDispatch ==
  \A c \in DOMAIN wctx :
    /\ ~wctx[c].staleUse
    /\ wctx[c].frees <= 1

----------------------------------------------------------------------------
C10_NoPayloadOnError ==
  cCall.made =>
    LET args == {cCall.value, cCall.stat, cCall.list} IN
    IF cCall.rc # "Ok"
    THEN args \subseteq {"absent", "empty", "null"}
    ELSE args \subseteq {"absent", "copy", "engine"}

C19_ToleratedByOthers ==
  /\ ~AssertsCallback(cKind)
  /\ cKind # "none"
  /\ ~cIn.callback
  /\ cPc = "returned"
  /\ ctxDeletes = 1

----------------------------------------------------------------------------
(***************************************************************************)
(* Claims about the reference counter                                      *)
(***************************************************************************)
Holders == {t \in Threads : rHeld[t]}

C15_AddsDelta ==
  rCall.made =>
    /\ rCall.after = rCall.old + rCall.i
    /\ rCall.v = rCall.after

\* C15, amended: inc_ref_counter(zh, i) adds the sign of i (-1, 0 or 1) to
\* the counter, whatever the size of i, and returns the counter's value
\* right after its own update, no other update in between; a decrement
\* returns zero exactly when no reference is held after it.
C15_AddsSignAndFetches ==
  rCall.made =>
    LET incr == IF rCall.i < 0 THEN -1 ELSE IF rCall.i > 0 THEN 1 ELSE 0 IN
    /\ rCall.after = rCall.old + incr
    /\ rCall.v = rCall.after
    /\ rCall.i < 0 => ((rCall.v = 0) <=> (rCall.held = 0))

\* C37: one call of inc_ref_counter moves the counter by the sign of its
\* argument: up by one for every positive i, down by one for every negative
\* i, not at all for 0, never by more than one; and it returns the
\* counter's new value.
C37_MovesBySign ==
  rCall.made =>
    /\ (rCall.i > 0) => (rCall.after = rCall.old + 1)
    /\ (rCall.i < 0) => (rCall.after = rCall.old - 1)
    /\ (rCall.i = 0) => (rCall.after = rCall.old)
    /\ rCall.after - rCall.old \in {-1, 0, 1}
    /\ rCall.v = rCall.after

\* C37's case: inc_ref_counter(zh, 2) took the counter from 1 to 2 and
\* returned 2.
C37_Witness ==
  /\ rCall.made
  /\ rCall.i = 2
  /\ rCall.old = 1
  /\ rCall.after = 2
  /\ rCall.v = 2

\* C15's case: with two references held, inc_ref_counter(zh, -2) took the
\* counter from 2 to 1 and returned 1.
C15_Witness ==
  /\ rCall.made
  /\ rCall.i = -2
  /\ rCall.old = 2
  /\ rCall.after = 1
  /\ rCall.v = 1

----------------------------------------------------------------------------
(***************************************************************************)
(* Claims about the synchronous adapter                                    *)
(***************************************************************************)
\* C35: the blocking exists writes the caller's Stat only when the
\* completion's rc is Ok and a Stat pointer was given: a failed submission
\* returns its code without waiting and without a write, a completion with
\* another rc leaves the Stat as it was, a completion with Ok and a non-null
\* pointer has copied the completion's Stat by the time exists returns.
C35_StatOnlyOnOk ==
  /\ (ePc = "returned" /\ dPc = "idle") =>
        (eRet \in SubmitCodes \ {"Ok"} /\ ~eWaited /\ callerStat = "before")
  /\ (dPc \notin {"idle", "pending"} /\ dRc # "Ok") => callerStat = "before"
  /\ (dPc \notin {"idle", "pending"} /\ dRc = "Ok" /\ stat_ = "caller") =>
        callerStat = "node"
  /\ stat_ = "null" => callerStat = "before"
  /\ (ePc = "returned" /\ eRet = "Ok") =>
        callerStat = (IF stat_ = "caller" THEN "node" ELSE "before")

\* C35's case: exists was given a Stat pointer, blocked, and returned the
\* NoNode of its completion; the Stat is what it was.
C35_Witness ==
  /\ ePc = "returned"
  /\ eWaited
  /\ stat_ = "caller"
  /\ dRc = "NoNode"
  /\ eRet = "NoNode"
  /\ callerStat = "before"

\* The other side of C35: the completion came with Ok and the Stat was copied.
C35_WitnessCopied ==
  /\ ePc = "returned"
  /\ stat_ = "caller"
  /\ eRet = "Ok"
  /\ callerStat = "node"

\* C6: the blocking exists returns the result code passed to processResult
\* and not before completed_ is set; wait_sync_completion does not return
\* before complete is set; and each returns once the completion has been
\* delivered by the other thread, whether that was before or after the
\* caller began to wait.
C6_BlockingRoundTrip ==
  /\ []((ePc = "returned" /\ dPc # "idle") => (completed_ /\ eRet = dRc))
  /\ []((sPc = "returned") => scComplete)
  /\ ((dPc = "p_done") ~> (ePc = "returned"))
  /\ ((nPc = "done" /\ sPc # "idle") ~> (sPc = "returned"))

\* C6's case: the caller blocked, the completion arrived with NoNode, the
\* caller returned NoNode.
C6_Witness ==
  /\ ePc = "returned"
  /\ eWaited
  /\ dPc = "p_done"
  /\ dRc = "NoNode"
  /\ eRet = "NoNode"
  /\ sPc = "returned"

----------------------------------------------------------------------------
(***************************************************************************)
(* Claims about the request calls                                          *)
(***************************************************************************)
\* C11: a request call that returned a submission error has left no
\* CompletionContext and no WatchContext of its own allocated.
C11_NoContextAfterSubmitError ==
  \A k \in DOMAIN calls :
    calls[k].rc # "Ok" =>
      /\ calls[k].completionContext # "live"
      /\ calls[k].watchContext # "live"

\* C29: exists, get and getChildren hand a watcher function to the engine
\* exactly when the caller supplied a watch object, and then with a
\* WatchContext; the dispatcher is never entered with a null context.
C29_WatcherIffWatch ==
  \A k \in DOMAIN calls :
    /\ TakesWatch(calls[k].call) =>
         (calls[k].watcher <=> calls[k].watchContext # "none")
    /\ ~calls[k].nullDispatch

\* exists and getChildren made with and without a watch, for which the
\* claim's statement does hold
C29_HoldsForOthers ==
  /\ Len(calls) = 2
  /\ calls[1].call = "exists" /\ ~calls[1].watcher
  /\ calls[1].watchContext = "none"
  /\ calls[2].call = "getChildren" /\ calls[2].watcher
  /\ calls[2].watchContext = "freed"

----------------------------------------------------------------------------
(***************************************************************************)
(* Claims about get_xid                                                    *)
(***************************************************************************)
\* C14: no call of get_xid returns a value an earlier call returned, and
\* every value returned is greater, modulo 2^32, than every value returned
\* by a call that had completed when its call began.
C14_XidFreshAndIncreasing == xFresh /\ xMonotone

\* C27: xid is seeded once, before its first use, and every later call is a
\* plain increment: each value returned is the value returned before it
\* plus one, modulo 2^32, across the wrap too.
C27_PlainIncrement == xPlain

\* across the wrap alone the values do follow one another: Int32Max was
\* returned, then Int32Min, each one more than the one before
C27_WrapReached ==
  /\ xPlain
  /\ xLast = Int32Min
  /\ Int32Max \in xReturned

============================================================================
